---- MODULE Spec2Model ----
(***************************************************************************)
(* The speculative finalize executor (Speculate) of the synthesizer and    *)
(* its commit-time Merkle reconciliation, modelled from                    *)
(* synthesizer/src/store/program/speculate.rs.                             *)
(*                                                                         *)
(* Hashes (BHP1024) are collision resistant; they are modelled as the      *)
(* tuple of their inputs, so two digests are equal exactly when their      *)
(* inputs are.  A Merkle tree is modelled by the sequence of its leaves    *)
(* and its root by that same sequence.                                     *)
(*                                                                         *)
(* An IndexMap is a sequence of records [k, v] with pairwise distinct k.   *)
(***************************************************************************)
EXTENDS Integers, Sequences, FiniteSets, TLC

\* ------------------------------------------------------------------------
\* Bounds of the model.
\* ------------------------------------------------------------------------
\* The longest processed_transactions list one Speculate instance reaches.
MaxProcessed == 2
\* The longest batch handed to speculate_transactions.
MaxBatch == 2
\* How many times the VM finalizes into the KV store.
MaxFinalize == 1

\* ------------------------------------------------------------------------
\* IndexMap helpers.
\* ------------------------------------------------------------------------
Range(s) == {s[i] : i \in 1..Len(s)}

Contains(s, x) == \E i \in 1..Len(s) : s[i] = x

IndexOf(m, key) ==
    IF \E i \in 1..Len(m) : m[i].k = key
    THEN CHOOSE i \in 1..Len(m) : m[i].k = key
    ELSE 0

ContainsKey(m, key) == IndexOf(m, key) # 0

MapGet(m, key) == m[IndexOf(m, key)].v

MapInsert(m, key, val) ==
    IF ContainsKey(m, key)
    THEN [m EXCEPT ![IndexOf(m, key)].v = val]
    ELSE Append(m, [k |-> key, v |-> val])

Keys(m) == [i \in 1..Len(m) |-> m[i].k]

Reverse(s) == [i \in 1..Len(s) |-> s[Len(s) + 1 - i]]

RECURSIVE Flatten(_)
Flatten(ss) == IF ss = <<>> THEN <<>> ELSE Head(ss) \o Flatten(Tail(ss))

IsPrefix(s, t) == Len(s) <= Len(t) /\ SubSeq(t, 1, Len(s)) = s

RECURSIVE IsSubsequence(_, _)
IsSubsequence(s, t) ==
    IF s = <<>> THEN TRUE
    ELSE IF t = <<>> THEN FALSE
    ELSE IF Head(s) = Head(t) THEN IsSubsequence(Tail(s), Tail(t))
    ELSE IsSubsequence(s, Tail(t))

NoDuplicates(s) == \A i, j \in 1..Len(s) : s[i] = s[j] => i = j

\* ------------------------------------------------------------------------
\* Options and results.
\* ------------------------------------------------------------------------
None == [some |-> FALSE, value |-> <<>>]
Some(x) == [some |-> TRUE, value |-> x]

Err == [ok |-> FALSE, value |-> <<>>]
Ok(x) == [ok |-> TRUE, value |-> x]

\* ------------------------------------------------------------------------
\* Finalize commands and the programs of the model.
\* ------------------------------------------------------------------------
LoadDefault(mapping, key, default, dest) ==
    [op |-> "load.d", mapping |-> mapping, key |-> key, default |-> default,
     a |-> 0, b |-> 0, dest |-> dest, value |-> 0]
AddInto(a, b, dest) ==
    [op |-> "add", mapping |-> "", key |-> 0, default |-> 0,
     a |-> a, b |-> b, dest |-> dest, value |-> 0]
SubInto(a, b, dest) ==
    [op |-> "sub", mapping |-> "", key |-> 0, default |-> 0,
     a |-> a, b |-> b, dest |-> dest, value |-> 0]
StoreInto(mapping, key, value) ==
    [op |-> "store", mapping |-> mapping, key |-> key, default |-> 0,
     a |-> 0, b |-> 0, dest |-> 0, value |-> value]

NoFinalize == [some |-> FALSE, inputs |-> 0, commands |-> <<>>]

\* finalize mint_public: r0 receiver, r1 amount.
MintPublic(mapping) ==
    [some |-> TRUE, inputs |-> 2,
     commands |-> << LoadDefault(mapping, 0, 0, 2),
                     AddInto(2, 1, 3),
                     StoreInto(mapping, 0, 3) >>]

\* finalize transfer_public: r0 sender, r1 receiver, r2 amount.
TransferPublic(mapping) ==
    [some |-> TRUE, inputs |-> 3,
     commands |-> << LoadDefault(mapping, 0, 0, 3),
                     SubInto(3, 2, 4),
                     StoreInto(mapping, 0, 4),
                     LoadDefault(mapping, 1, 0, 5),
                     AddInto(5, 2, 6),
                     StoreInto(mapping, 1, 6) >>]

\* The declared mappings of a program, in declaration order.
Mappings(program_id) ==
    CASE program_id = "credits.aleo" -> << "account" >>
      [] program_id = "token.aleo"   -> << "balances" >>
      [] program_id = "dapp.aleo"    -> << "m1", "m2" >>

\* stack.get_function(function_name).finalize()
GetFinalize(program_id, function_name) ==
    CASE function_name = "mint_public"     -> MintPublic(Mappings(program_id)[1])
      [] function_name = "transfer_public" -> TransferPublic(Mappings(program_id)[1])
      [] OTHER                             -> NoFinalize

\* ------------------------------------------------------------------------
\* Transactions.
\* ------------------------------------------------------------------------
Transition(program_id, function_name, finalize) ==
    [program_id |-> program_id, function_name |-> function_name, finalize |-> finalize]

Deploy(id, program_id) ==
    [id |-> id, kind |-> "Deploy", program |-> program_id, transitions |-> <<>>]

Execute(id, transitions) ==
    [id |-> id, kind |-> "Execute", program |-> "", transitions |-> transitions]

\* The transactions of the model; a transaction's id is its index.
Transactions ==
    << Deploy(1, "dapp.aleo"),
       Deploy(2, "credits.aleo"),
       Execute(3, << Transition("credits.aleo", "mint_public", Some(<< "A", 10 >>)) >>),
       Execute(4, << Transition("credits.aleo", "transfer_public", Some(<< "A", "B", 20 >>)) >>),
       Execute(5, << Transition("credits.aleo", "transfer_public", Some(<< "A", "B", 30 >>)) >>),
       Execute(6, << Transition("token.aleo", "mint_public", Some(<< "B", 5 >>)) >>),
       Execute(7, << Transition("credits.aleo", "transfer_public", Some(<< "A", "B", 100 >>)),
                     Transition("credits.aleo", "mint_public", Some(<< "A", 10 >>)) >>),
       Execute(8, << Transition("credits.aleo", "mint_public", None) >>),
       Execute(9, << Transition("credits.aleo", "transfer_private", None) >>),
       Execute(10, << Transition("credits.aleo", "transfer_public", Some(<< "A", "B", 10 >>)) >>),
       Execute(11, << Transition("credits.aleo", "mint_public", Some(<< "A", 20 >>)) >>),
       Execute(12, << Transition("credits.aleo", "transfer_public", Some(<< "A", "B", 30 >>)),
                      Transition("credits.aleo", "mint_public", Some(<< "A", 10 >>)) >>) >>

TxIds == 1..Len(Transactions)

\* The transactions handed to speculate_transaction one at a time: the
\* deployments, the mints and transfers of the two programs and the
\* executions without finalize inputs or without a finalize.
SingleIds == 1..9

\* The transactions the VM finalizes into the store while a Speculate
\* instance is alive: the deployment and the mint.
FinalizableIds == {1, 3}

Tx(id) == Transactions[id]

\* ------------------------------------------------------------------------
\* The KV (program) store: an ordered map program id -> mapping name ->
\* key -> value, and the Merkle trees over it.
\* ------------------------------------------------------------------------
\* The store of test_speculate_many: credits deployed, balance(A) = 20.
InitialStore ==
    << [k |-> "credits.aleo",
        v |-> << [k |-> "account", v |-> << [k |-> "A", v |-> 20] >>] >>],
       [k |-> "token.aleo",
        v |-> << [k |-> "balances", v |-> <<>>] >>] >>

ContainsProgram(store, program_id) == ContainsKey(store, program_id)

\* IndexMap::get
Lookup(m, key) == IF ContainsKey(m, key) THEN Some(MapGet(m, key)) ELSE None

\* IndexMap::get on the map an earlier get returned, None when that get missed.
LookupIn(option, key) == IF option.some THEN Lookup(option.value, key) ELSE None

\* Option::unwrap_or
OrElse(option, fallback) == IF option.some THEN option.value ELSE fallback

\* The 0-based index of an entry that was found at a 1-based position.
IndexFrom(position) == IF position = 0 THEN None ELSE Some(position - 1)

\* program_store().get_value
StoreGetValue(store, program_id, mapping_name, key) ==
    LookupIn(LookupIn(Lookup(store, program_id), mapping_name), key)

\* program_store().get_key_index: the 0-based position of the key in its mapping.
GetKeyIndex(store, program_id, mapping_name, key) ==
    IndexFrom(IndexOf(OrElse(LookupIn(Lookup(store, program_id), mapping_name), <<>>), key))

\* N::hash_bhp1024 of (program id, mapping name), of (mapping id, H(key)) and
\* of (key id, H(value)).
MappingId(program_id, mapping_name) == << program_id, mapping_name >>
KeyIdOf(mapping_id, key) == << mapping_id, key >>
ValueIdOf(key_id, value) == << key_id, value >>

\* ------------------------------------------------------------------------
\* MerkleTreeUpdate: the operations logged for commit.
\* ------------------------------------------------------------------------
InsertMapping(mapping_id) ==
    [kind |-> "InsertMapping", mapping_id |-> mapping_id, key_index |-> -1,
     key_id |-> <<>>, value_id |-> <<>>]
InsertValue(mapping_id, key_id, value_id) ==
    [kind |-> "InsertValue", mapping_id |-> mapping_id, key_index |-> -1,
     key_id |-> key_id, value_id |-> value_id]
UpdateValue(mapping_id, key_index, key_id, value_id) ==
    [kind |-> "UpdateValue", mapping_id |-> mapping_id, key_index |-> key_index,
     key_id |-> key_id, value_id |-> value_id]

\* MerkleTreeUpdate::key_id: InsertMapping has no key id.
KeyId(op) == IF op.kind = "InsertMapping" THEN None ELSE Some(op.key_id)

\* ------------------------------------------------------------------------
\* Speculate: the fields are the variables below; the methods are operators
\* over a record `self` of those fields.
\* ------------------------------------------------------------------------
\* Speculate::new
New(root) ==
    [latest_storage_root    |-> root,
     processed_transactions |-> <<>>,
     accepted_transactions  |-> <<>>,
     speculate_state        |-> <<>>,
     operations             |-> <<>>]

\* A contains_transaction that forgets the rejected ids.
ContainsTransaction_AcceptedOnly(self, transaction_id) ==
    \/ Contains(self.accepted_transactions, transaction_id)
    \/ ContainsKey(self.operations, transaction_id)

\* Speculate::contains_transaction
ContainsTransaction(self, transaction_id) ==
    \/ Contains(self.processed_transactions, transaction_id)
    \/ Contains(self.accepted_transactions, transaction_id)
    \/ ContainsKey(self.operations, transaction_id)

\* A get_value that never finds a speculative write.
GetValue_Miss(self, program_id, mapping_name, key) == None

\* Speculate::get_value: reads the overlay only.
GetValue(self, program_id, mapping_name, key) ==
    LookupIn(LookupIn(Lookup(self.speculate_state, program_id), mapping_name), key)

\* entry(mapping_name).or_insert(IndexMap::new()) followed by insert(key, value)
UpsertMapping(mappings, mapping_name, key, value) ==
    MapInsert(mappings, mapping_name,
              MapInsert(OrElse(Lookup(mappings, mapping_name), <<>>), key, value))

\* entry(program_id).or_insert(IndexMap::new()) followed by the mapping upsert
UpsertProgram(programs, program_id, mapping_name, key, value) ==
    MapInsert(programs, program_id,
              UpsertMapping(OrElse(Lookup(programs, program_id), <<>>), mapping_name, key, value))

\* An update_key_value that leaves the overlay as it is.
UpdateKeyValue_Dropped(self, program_id, mapping_name, key, value) == self

\* An update_key_value that inserts with or_insert: the value of a key the
\* overlay already holds is kept.
UpdateKeyValue_KeepsFirst(self, program_id, mapping_name, key, value) ==
    IF GetValue(self, program_id, mapping_name, key).some
    THEN self
    ELSE [self EXCEPT !.speculate_state = UpsertProgram(@, program_id, mapping_name, key, value)]

\* Speculate::update_key_value
UpdateKeyValue(self, program_id, mapping_name, key, value) ==
    [self EXCEPT !.speculate_state = UpsertProgram(@, program_id, mapping_name, key, value)]

\* Command::speculate_finalize: evaluates one command on the registers, reading
\* the overlay first and the store on a miss, writing the overlay only.
SpeculateFinalize(command, store, program_id, registers, self) ==
    CASE command.op = "load.d" ->
            [ok |-> TRUE, self |-> self,
             registers |->
                (command.dest :>
                    OrElse(GetValue(self, program_id, command.mapping, registers[command.key]),
                           OrElse(StoreGetValue(store, program_id, command.mapping,
                                                registers[command.key]),
                                  command.default)))
                @@ registers]
      [] command.op = "add" ->
            [ok |-> TRUE, self |-> self,
             registers |-> (command.dest :> (registers[command.a] + registers[command.b])) @@ registers]
      [] command.op = "sub" ->
            IF registers[command.a] < registers[command.b]
            THEN [ok |-> FALSE, self |-> self, registers |-> registers]
            ELSE [ok |-> TRUE, self |-> self,
                  registers |-> (command.dest :> (registers[command.a] - registers[command.b])) @@ registers]
      [] command.op = "store" ->
            [ok |-> TRUE,
             self |-> UpdateKeyValue(self, program_id, command.mapping,
                                     registers[command.key], registers[command.value]),
             registers |-> registers]

\* An operation choice that never updates.
OperationFor_AlwaysInsert(key_index, mapping_id, key, value) ==
    InsertValue(mapping_id, KeyIdOf(mapping_id, key), ValueIdOf(KeyIdOf(mapping_id, key), value))

\* The match on get_key_index: UpdateValue when the persistent store has an
\* index for the key, InsertValue otherwise.
OperationFor(key_index, mapping_id, key, value) ==
    IF key_index.some
    THEN UpdateValue(mapping_id, key_index.value, KeyIdOf(mapping_id, key),
                     ValueIdOf(KeyIdOf(mapping_id, key), value))
    ELSE InsertValue(mapping_id, KeyIdOf(mapping_id, key),
                     ValueIdOf(KeyIdOf(mapping_id, key), value))

\* The operation a Store command logs.
StoreOperation(store, program_id, command, registers) ==
    OperationFor(GetKeyIndex(store, program_id, command.mapping, registers[command.key]),
                 MappingId(program_id, command.mapping),
                 registers[command.key], registers[command.value])

\* operations.push((*program_id, operation)) for a Store command.
LogCommand(operations, store, program_id, command, registers) ==
    IF command.op = "store"
    THEN Append(operations, << program_id, StoreOperation(store, program_id, command, registers) >>)
    ELSE operations

\* The loop over finalize.commands() of speculate_execution; `r` is what
\* speculate_finalize returned for the command just evaluated and `logged` the
\* operations with that command's operation pushed.
RECURSIVE EvaluateCommands(_, _, _, _, _, _)
AfterCommand(r, store, program_id, commands, logged) ==
    IF r.ok
    THEN EvaluateCommands(r.self, store, program_id, commands, r.registers, logged)
    ELSE [ok |-> FALSE, self |-> r.self, operations |-> logged]

EvaluateCommands(self, store, program_id, commands, registers, operations) ==
    IF commands = <<>> THEN [ok |-> TRUE, self |-> self, operations |-> operations]
    ELSE AfterCommand(SpeculateFinalize(Head(commands), store, program_id, registers, self),
                      store, program_id, Tail(commands),
                      LogCommand(operations, store, program_id, Head(commands), registers))

\* registers.store of the finalize inputs: input i goes to register r(i-1).
StoreInputs(finalize, inputs) == [r \in 0..(finalize.inputs - 1) |-> inputs[r + 1]]

\* The loop over execution.transitions().rev() of speculate_execution;
\* `transitions` is already reversed, `e` is the outcome of the commands of the
\* transition just evaluated.
RECURSIVE EvaluateTransitions(_, _, _, _)
AfterTransition(e, store, transitions) ==
    IF e.ok THEN EvaluateTransitions(e.self, store, transitions, e.operations) ELSE e

\* One transition whose stack exists: skip it without a finalize scope, bail
\* without finalize inputs, evaluate the commands otherwise.
EvaluateTransition(self, store, transition, finalize, transitions, operations) ==
    IF ~finalize.some
    THEN EvaluateTransitions(self, store, transitions, operations)
    ELSE IF ~transition.finalize.some
    THEN [ok |-> FALSE, self |-> self, operations |-> operations]
    ELSE AfterTransition(
             EvaluateCommands(self, store, transition.program_id, finalize.commands,
                              StoreInputs(finalize, transition.finalize.value), operations),
             store, transitions)

EvaluateTransitions(self, store, transitions, operations) ==
    IF transitions = <<>> THEN [ok |-> TRUE, self |-> self, operations |-> operations]
    ELSE IF ~ContainsProgram(store, Head(transitions).program_id)
    THEN [ok |-> FALSE, self |-> self, operations |-> operations]
    ELSE EvaluateTransition(self, store, Head(transitions),
                            GetFinalize(Head(transitions).program_id,
                                        Head(transitions).function_name),
                            Tail(transitions), operations)

\* A log that takes an entry for every transaction, an empty one included.
LogOperations_KeepsEmpty(self, transaction_id, operations) ==
    [self EXCEPT !.operations = MapInsert(@, transaction_id, operations)]

\* self.operations.insert(transaction_id, operations) unless operations is empty.
LogOperations(self, transaction_id, operations) ==
    IF operations # <<>>
    THEN [self EXCEPT !.operations = MapInsert(@, transaction_id, operations)]
    ELSE self

\* The end of speculate_execution: `e` is the outcome of the transitions.
AfterTransitions(e, transaction_id) ==
    IF ~e.ok THEN [ok |-> FALSE, self |-> e.self]
    ELSE [ok |-> TRUE, self |-> LogOperations(e.self, transaction_id, e.operations)]

\* An execution that evaluates its transitions from the first to the last.
SpeculateExecution_Forward(self, store, transaction_id, transitions) ==
    AfterTransitions(EvaluateTransitions(self, store, transitions, <<>>), transaction_id)

\* Speculate::speculate_execution
SpeculateExecution(self, store, transaction_id, transitions) ==
    AfterTransitions(EvaluateTransitions(self, store, Reverse(transitions), <<>>), transaction_id)

\* One InsertMapping per declared mapping, in declaration order.
DeploymentOperations(program_id, names) ==
    [i \in 1..Len(names) |-> << program_id, InsertMapping(MappingId(program_id, names[i])) >>]

\* A speculate_deployment without the check for a deployed program.
SpeculateDeployment_Redeploys(self, store, transaction_id, program_id) ==
    [ok |-> TRUE,
     self |-> LogOperations(self, transaction_id,
                            DeploymentOperations(program_id, Mappings(program_id)))]

\* Speculate::speculate_deployment
SpeculateDeployment(self, store, transaction_id, program_id) ==
    IF ContainsProgram(store, program_id) THEN [ok |-> FALSE, self |-> self]
    ELSE [ok |-> TRUE,
          self |-> LogOperations(self, transaction_id,
                                 DeploymentOperations(program_id, Mappings(program_id)))]

\* ------------------------------------------------------------------------
\* Merkle trees of the program store.
\* ------------------------------------------------------------------------
\* The tree of one program: one leaf per mapping, holding the mapping id and
\* the (key id, value id) leaves of the mapping in key-index order.
ProgramTree(program_id, mappings) ==
    [i \in 1..Len(mappings) |->
        LET mapping_id == MappingId(program_id, mappings[i].k)
            entries    == mappings[i].v
        IN [k |-> mapping_id,
            v |-> [j \in 1..Len(entries) |->
                      LET key_id == KeyIdOf(mapping_id, entries[j].k)
                      IN [k |-> key_id, v |-> ValueIdOf(key_id, entries[j].v)]]]]

\* program_store().tree: one leaf per program, in program-id order.
StorageTree(store) == [i \in 1..Len(store) |-> ProgramTree(store[i].k, store[i].v)]

\* program_store().current_storage_root()
CurrentStorageRoot(store) == StorageTree(store)

\* The leaves of a mapping after an UpdateValue at key_index.
UpdateLeaf(leaves, op) ==
    IF op.key_index + 1 > Len(leaves) THEN Err
    ELSE Ok([leaves EXCEPT ![op.key_index + 1] = [k |-> op.key_id, v |-> op.value_id]])

\* The program tree with the leaves of one of its mappings replaced.
WithLeaves(tree, mapping_id, leaves) ==
    IF leaves.ok THEN Ok(MapInsert(tree, mapping_id, leaves.value)) ELSE Err

\* One operation applied to a program tree by to_program_tree.
ApplyOperation(tree, op) ==
    CASE op.kind = "InsertMapping" ->
            IF ContainsKey(tree, op.mapping_id) THEN Err
            ELSE Ok(Append(tree, [k |-> op.mapping_id, v |-> <<>>]))
      [] op.kind = "InsertValue" ->
            IF ~ContainsKey(tree, op.mapping_id) THEN Err
            ELSE WithLeaves(tree, op.mapping_id,
                            Ok(MapInsert(MapGet(tree, op.mapping_id), op.key_id, op.value_id)))
      [] op.kind = "UpdateValue" ->
            IF ~ContainsKey(tree, op.mapping_id) THEN Err
            ELSE WithLeaves(tree, op.mapping_id, UpdateLeaf(MapGet(tree, op.mapping_id), op))

RECURSIVE ApplyOperations(_, _)
AfterOperation(r, ops) == IF r.ok THEN ApplyOperations(r.value, ops) ELSE Err

ApplyOperations(tree, ops) ==
    IF ops = <<>> THEN Ok(tree)
    ELSE AfterOperation(ApplyOperation(tree, Head(ops)), Tail(ops))

\* storage.to_program_tree(program_id, Some(operations))
ToProgramTree(store, program_id, ops) ==
    ApplyOperations(ProgramTree(program_id, OrElse(Lookup(store, program_id), <<>>)), ops)

\* storage_tree.prepare_append(appends)
PrepareAppend(tree, appends) == tree \o appends

\* storage_tree.update_many(updates): updates are << leaf index, leaf >>.
RECURSIVE UpdateMany(_, _)
UpdateMany(tree, updates) ==
    IF updates = <<>> THEN Ok(tree)
    ELSE IF Head(updates)[1] + 1 > Len(tree) THEN Err
    ELSE UpdateMany([tree EXCEPT ![Head(updates)[1] + 1] = Head(updates)[2]], Tail(updates))

\* ------------------------------------------------------------------------
\* Speculate::speculate_transaction, speculate_transactions and commit.
\* ------------------------------------------------------------------------
\* The dispatch on the transaction kind.
Dispatch(self, store, transaction) ==
    IF transaction.kind = "Deploy"
    THEN SpeculateDeployment(self, store, transaction.id, transaction.program)
    ELSE SpeculateExecution(self, store, transaction.id, transaction.transitions)

\* A speculate_transaction that lets a dispatch error escape as Err.
AfterDispatch_ErrEscapes(d, transaction_id) ==
    IF ~d.ok
    THEN [result |-> Err, self |-> d.self]
    ELSE [result |-> Ok(TRUE),
          self |-> [d.self EXCEPT !.accepted_transactions = Append(@, transaction_id)]]

\* A speculate_transaction that does not return early on a dispatch error and
\* so lists the rejected id as accepted.
AfterDispatch_NoEarlyReturn(d, transaction_id) ==
    [result |-> Ok(d.ok),
     self |-> [d.self EXCEPT !.accepted_transactions = Append(@, transaction_id)]]

\* The end of speculate_transaction: `d` is what the dispatch returned.
AfterDispatch(d, transaction_id) ==
    IF ~d.ok
    THEN [result |-> Ok(FALSE), self |-> d.self]
    ELSE [result |-> Ok(TRUE),
          self |-> [d.self EXCEPT !.accepted_transactions = Append(@, transaction_id)]]

\* speculate_transaction past its two guards: push the id, dispatch, and push
\* the id as accepted when the dispatch succeeded.
RecordAndDispatch(self, store, transaction) ==
    AfterDispatch(Dispatch([self EXCEPT !.processed_transactions = Append(@, transaction.id)],
                           store, transaction),
                  transaction.id)

\* A speculate_transaction that records the id before it checks its guards.
SpeculateTransaction_RecordsFirst(self, store, transaction) ==
    IF CurrentStorageRoot(store) # self.latest_storage_root
           \/ ContainsTransaction(self, transaction.id)
    THEN [result |-> Err,
          self |-> [self EXCEPT !.processed_transactions = Append(@, transaction.id)]]
    ELSE RecordAndDispatch(self, store, transaction)

\* A speculate_transaction without the storage-root guard.
SpeculateTransaction_NoRootGuard(self, store, transaction) ==
    IF ContainsTransaction(self, transaction.id)
    THEN [result |-> Err, self |-> self]
    ELSE RecordAndDispatch(self, store, transaction)

\* A speculate_transaction without the duplicate guard.
SpeculateTransaction_NoDuplicateGuard(self, store, transaction) ==
    IF CurrentStorageRoot(store) # self.latest_storage_root
    THEN [result |-> Err, self |-> self]
    ELSE RecordAndDispatch(self, store, transaction)

\* Speculate::speculate_transaction
SpeculateTransaction(self, store, transaction) ==
    IF CurrentStorageRoot(store) # self.latest_storage_root
    THEN [result |-> Err, self |-> self]
    ELSE IF ContainsTransaction(self, transaction.id)
    THEN [result |-> Err, self |-> self]
    ELSE RecordAndDispatch(self, store, transaction)

\* The loop of speculate_transactions; `accepted` is the local list it returns,
\* `failed` the ids it printed as "Failed to speculate transaction", `r` what
\* speculate_transaction returned for the transaction `id`.
RECURSIVE SpeculateEach(_, _, _, _, _)
\* A speculate_transactions that returns every id it processed.
AfterSpeculate_ReturnsAll(r, id, store, transactions, accepted, failed) ==
    IF ~r.result.ok THEN [result |-> Err, self |-> r.self, failed |-> failed]
    ELSE SpeculateEach(r.self, store, transactions, Append(accepted, id),
                       IF r.result.value THEN failed ELSE failed \cup {id})

AfterSpeculate(r, id, store, transactions, accepted, failed) ==
    IF ~r.result.ok THEN [result |-> Err, self |-> r.self, failed |-> failed]
    ELSE IF r.result.value
    THEN SpeculateEach(r.self, store, transactions, Append(accepted, id), failed)
    ELSE SpeculateEach(r.self, store, transactions, accepted, failed \cup {id})

SpeculateEach(self, store, transactions, accepted, failed) ==
    IF transactions = <<>> THEN [result |-> Ok(accepted), self |-> self, failed |-> failed]
    ELSE AfterSpeculate(SpeculateTransaction(self, store, Head(transactions)),
                        Head(transactions).id, store, Tail(transactions), accepted, failed)

\* Restores the instance when the batch ran into a guard error.
Restore(r, self) == IF r.result.ok THEN r ELSE [r EXCEPT !.self = self]

\* A speculate_transactions that restores the instance when a guard fails.
SpeculateTransactions_RollsBack(self, store, transactions) ==
    Restore(SpeculateEach(self, store, transactions, <<>>, {}), self)

\* Speculate::speculate_transactions
SpeculateTransactions(self, store, transactions) ==
    SpeculateEach(self, store, transactions, <<>>, {})

\* A retain predicate that keeps every operation.
Retain_KeepsAll(op, operation) == TRUE

\* The predicate of operations.retain in commit, as written.
Retain(op, operation) == KeyId(op) # KeyId(op)

\* operations.retain(..); operations.push(*operation)
RetainAndPush(operations, operation) ==
    LET Keep(op) == Retain(op, operation)
    IN Append(SelectSeq(operations, Keep), operation)

\* The loop of commit that groups the operations by program.
RECURSIVE FilterOperations(_, _)
FilterOperations(all_operations, final_operations) ==
    IF all_operations = <<>> THEN final_operations
    ELSE FilterOperations(Tail(all_operations),
             MapInsert(final_operations, Head(all_operations)[1],
                       RetainAndPush(OrElse(Lookup(final_operations, Head(all_operations)[1]), <<>>),
                                     Head(all_operations)[2])))

\* The first position of an element in a sequence, 0 when it is absent.
FirstIndex(s, x) ==
    IF Contains(s, x)
    THEN CHOOSE i \in 1..Len(s) : s[i] = x /\ \A j \in 1..(i - 1) : s[j] # x
    ELSE 0

\* The iterator after a position() that matched at `i` (0: no match).
Advance(remaining, i) ==
    IF i = 0
    THEN [index |-> None, remaining |-> <<>>]
    ELSE [index |-> Some(i - 1), remaining |-> SubSeq(remaining, i + 1, Len(remaining))]

\* Iterator::position on the shared program_id_map iterator: the index is
\* counted from where the iterator stands, and the iterator is consumed up to
\* and including the match (or to its end).
Position(remaining, program_id) == Advance(remaining, FirstIndex(remaining, program_id))

\* The loop of commit that sorts the new leaves into updates and appends; `p`
\* is what position() returned for the first of `trees`.
RECURSIVE Classify(_, _, _, _)
AfterPosition(p, trees, updates, appends) ==
    IF p.index.some
    THEN Classify(Tail(trees), p.remaining,
                  Append(updates, << p.index.value, Head(trees).v >>), appends)
    ELSE Classify(Tail(trees), p.remaining, updates, Append(appends, Head(trees).v))

Classify(trees, program_id_map, updates, appends) ==
    IF trees = <<>> THEN [updates |-> updates, appends |-> appends]
    ELSE AfterPosition(Position(program_id_map, Head(trees).k), trees, updates, appends)

\* self.operations.values().flatten()
AllOperations(self) == Flatten([i \in 1..Len(self.operations) |-> self.operations[i].v])

\* The operation lists commit hands to to_program_tree, per program.
FinalOperations(self) == FilterOperations(AllOperations(self), <<>>)

\* The loop of commit that builds the updated program trees; Err when
\* to_program_tree fails for one of them.
RECURSIVE UpdatedProgramTrees(_, _, _)
AfterProgramTree(tree, store, final_operations, updated) ==
    IF tree.ok
    THEN UpdatedProgramTrees(store, Tail(final_operations),
                             Append(updated, [k |-> Head(final_operations).k, v |-> tree.value]))
    ELSE Err

UpdatedProgramTrees(store, final_operations, updated) ==
    IF final_operations = <<>> THEN Ok(updated)
    ELSE AfterProgramTree(
             ToProgramTree(store, Head(final_operations).k, Head(final_operations).v),
             store, final_operations, updated)

\* prepare_append of the appends, then update_many of the updates.
ApplyToStorageTree(storage_tree, c) ==
    UpdateMany(PrepareAppend(storage_tree, c.appends), c.updates)

\* The end of commit: `trees` is the outcome of the program-tree loop.
UpdatedStorageTree(store, trees) ==
    IF trees.ok
    THEN ApplyToStorageTree(StorageTree(store), Classify(trees.value, Keys(store), <<>>, <<>>))
    ELSE Err

\* A commit that answers an empty operation log with a new, empty tree
\* instead of a clone of the store's storage tree.
Commit_EmptyTree(self, store) ==
    IF CurrentStorageRoot(store) # self.latest_storage_root THEN Err
    ELSE IF AllOperations(self) = <<>> THEN Ok(<<>>)
    ELSE UpdatedStorageTree(store, UpdatedProgramTrees(store, FinalOperations(self), <<>>))

\* Speculate::commit
Commit(self, store) ==
    IF CurrentStorageRoot(store) # self.latest_storage_root THEN Err
    ELSE IF AllOperations(self) = <<>> THEN Ok(StorageTree(store))
    ELSE UpdatedStorageTree(store, UpdatedProgramTrees(store, FinalOperations(self), <<>>))

\* ------------------------------------------------------------------------
\* The serial, non-speculative finalize of the VM into the program store.
\* ------------------------------------------------------------------------
\* One finalize command evaluated directly on the store.
FinalizeCommand(command, store, program_id, registers) ==
    CASE command.op = "load.d" ->
            [ok |-> TRUE, store |-> store,
             registers |->
                (command.dest :>
                    OrElse(StoreGetValue(store, program_id, command.mapping, registers[command.key]),
                           command.default))
                @@ registers]
      [] command.op = "add" ->
            [ok |-> TRUE, store |-> store,
             registers |-> (command.dest :> (registers[command.a] + registers[command.b])) @@ registers]
      [] command.op = "sub" ->
            IF registers[command.a] < registers[command.b]
            THEN [ok |-> FALSE, store |-> store, registers |-> registers]
            ELSE [ok |-> TRUE, store |-> store,
                  registers |-> (command.dest :> (registers[command.a] - registers[command.b])) @@ registers]
      [] command.op = "store" ->
            [ok |-> TRUE,
             store |-> UpsertProgram(store, program_id, command.mapping,
                                     registers[command.key], registers[command.value]),
             registers |-> registers]

RECURSIVE FinalizeCommands(_, _, _, _)
AfterFinalizeCommand(r, program_id, commands) ==
    IF r.ok THEN FinalizeCommands(r.store, program_id, commands, r.registers)
    ELSE [ok |-> FALSE, store |-> r.store]

FinalizeCommands(store, program_id, commands, registers) ==
    IF commands = <<>> THEN [ok |-> TRUE, store |-> store]
    ELSE AfterFinalizeCommand(FinalizeCommand(Head(commands), store, program_id, registers),
                              program_id, Tail(commands))

RECURSIVE FinalizeTransitions(_, _)
AfterFinalizeTransition(f, transitions) ==
    IF f.ok THEN FinalizeTransitions(f.store, transitions) ELSE f

FinalizeTransition(store, transition, finalize, transitions) ==
    IF ~finalize.some THEN FinalizeTransitions(store, transitions)
    ELSE IF ~transition.finalize.some THEN [ok |-> FALSE, store |-> store]
    ELSE AfterFinalizeTransition(
             FinalizeCommands(store, transition.program_id, finalize.commands,
                              StoreInputs(finalize, transition.finalize.value)),
             transitions)

FinalizeTransitions(store, transitions) ==
    IF transitions = <<>> THEN [ok |-> TRUE, store |-> store]
    ELSE IF ~ContainsProgram(store, Head(transitions).program_id)
    THEN [ok |-> FALSE, store |-> store]
    ELSE FinalizeTransition(store, Head(transitions),
                            GetFinalize(Head(transitions).program_id,
                                        Head(transitions).function_name),
                            Tail(transitions))

\* The program a deployment adds to the store: its declared mappings, empty.
DeployedProgram(program_id, names) ==
    [k |-> program_id, v |-> [i \in 1..Len(names) |-> [k |-> names[i], v |-> <<>>]]]

\* A finalize that failed leaves the store as it was.
OrUnchanged(f, store) == IF f.ok THEN f ELSE [ok |-> FALSE, store |-> store]

\* The finalize of one transaction: a deployment adds the program with its
\* declared mappings, an execution runs its finalize scopes on the store.
FinalizeTransaction(store, transaction) ==
    IF transaction.kind = "Deploy"
    THEN IF ContainsProgram(store, transaction.program) THEN [ok |-> FALSE, store |-> store]
         ELSE [ok |-> TRUE,
               store |-> Append(store, DeployedProgram(transaction.program,
                                                       Mappings(transaction.program)))]
    ELSE OrUnchanged(FinalizeTransitions(store, Reverse(transaction.transitions)), store)

\* vm.finalize(transactions): all of them, in order, or none.
RECURSIVE FinalizeEach(_, _)
AfterFinalize(f, ids) == IF f.ok THEN FinalizeEach(f.store, ids) ELSE f

FinalizeEach(store, ids) ==
    IF ids = <<>> THEN [ok |-> TRUE, store |-> store]
    ELSE AfterFinalize(FinalizeTransaction(store, Tx(Head(ids))), Tail(ids))

FinalizeAll(store, ids) == OrUnchanged(FinalizeEach(store, ids), store)

\* ------------------------------------------------------------------------
\* Blocks: the chain of vm/ledger/blocks/mod.rs.  A MemoryMap is an IndexMap
\* from heights; the block tree is the sequence of its leaves (block hashes)
\* and its root that same sequence.
\* ------------------------------------------------------------------------
\* The largest header height of a block handed to add_next.
MaxHeight == 2
\* The largest header timestamp of a block handed to add_next.
MaxTimestamp == 2

\* An Err carrying the message of its anyhow!.
Error(message) == [ok |-> FALSE, value |-> message]

\* A transaction of a block: its id, serial numbers and commitments, and its
\* transitions, here one transition that holds every commitment.
BlockTransaction(id, serial_numbers, commitments) ==
    [id |-> id, serial_numbers |-> serial_numbers, commitments |-> commitments,
     transitions |-> << [id |-> << id, 1 >>, commitments |-> commitments] >>]

\* Header::from: the fields add_next and the accessors read.
Header(previous_state_root, transactions_root, height, timestamp) ==
    [previous_state_root |-> previous_state_root, transactions_root |-> transactions_root,
     height |-> height, timestamp |-> timestamp]

\* Block::from
Block(previous_hash, header, transactions) ==
    [previous_hash |-> previous_hash, header |-> header, transactions |-> transactions]

\* Block::hash: the hash of the previous hash and the header root.
Hash(block) == << block.previous_hash, block.header >>

\* Transactions::to_root
ToRoot(transactions) == [i \in 1..Len(transactions) |-> transactions[i].id]

\* Transactions::serial_numbers and Transactions::commitments
SerialNumbers(transactions) == UNION {transactions[i].serial_numbers : i \in 1..Len(transactions)}
Commitments(transactions) == UNION {transactions[i].commitments : i \in 1..Len(transactions)}

\* Block::from_bytes_le(GenesisBytes::load_bytes())
GenesisBlock ==
    Block(<<>>, Header(<<>>, << "g" >>, 0, 0), << BlockTransaction("g", {}, {"c0"}) >>)

\* Blocks::new
BlocksNew ==
    [current_height  |-> GenesisBlock.header.height,
     current_hash    |-> Hash(GenesisBlock),
     block_tree      |-> << Hash(GenesisBlock) >>,
     previous_hashes |-> << [k |-> GenesisBlock.header.height, v |-> GenesisBlock.previous_hash] >>,
     headers         |-> << [k |-> GenesisBlock.header.height, v |-> GenesisBlock.header] >>,
     transactions    |-> << [k |-> GenesisBlock.header.height, v |-> GenesisBlock.transactions] >>]

\* Blocks::latest_block_height, latest_block_hash and latest_state_root
LatestBlockHeight(self) == self.current_height
LatestBlockHash(self) == self.current_hash
LatestStateRoot(self) == self.block_tree

\* Blocks::get_previous_block_hash, get_block_header and get_block_transactions
GetPreviousBlockHash(self, height) ==
    IF ContainsKey(self.previous_hashes, height)
    THEN Ok(MapGet(self.previous_hashes, height))
    ELSE Error("Missing previous block hash")
GetBlockHeader(self, height) ==
    IF ContainsKey(self.headers, height)
    THEN Ok(MapGet(self.headers, height))
    ELSE Error("Missing block header")
GetBlockTransactions(self, height) ==
    IF ContainsKey(self.transactions, height)
    THEN Ok(MapGet(self.transactions, height))
    ELSE Error("Missing block transactions")

\* Blocks::get_block
GetBlock(self, height) ==
    IF ~GetPreviousBlockHash(self, height).ok THEN GetPreviousBlockHash(self, height)
    ELSE IF ~GetBlockHeader(self, height).ok THEN GetBlockHeader(self, height)
    ELSE IF ~GetBlockTransactions(self, height).ok THEN GetBlockTransactions(self, height)
    ELSE Ok(Block(MapGet(self.previous_hashes, height), MapGet(self.headers, height),
                  MapGet(self.transactions, height)))

\* Blocks::latest_block
LatestBlock(self) == GetBlock(self, self.current_height)

\* Blocks::get_block_hash
GetBlockHash(self, height) ==
    IF height > self.current_height THEN Error("Given block height is greater than current height")
    ELSE IF height = self.current_height THEN Ok(self.current_hash)
    ELSE IF ContainsKey(self.previous_hashes, height + 1)
    THEN Ok(MapGet(self.previous_hashes, height + 1))
    ELSE Error("Missing block hash")

\* Blocks::contains_height: the previous_hashes map answers.
ContainsHeight(self, height) == ContainsKey(self.previous_hashes, height)

\* Blocks::contains_block_hash
ContainsBlockHash(self, block_hash) ==
    \/ self.current_hash = block_hash
    \/ \E i \in 1..Len(self.previous_hashes) : self.previous_hashes[i].v = block_hash

\* A contains_transaction that finds nothing.
BlocksContainsTransaction_Never(self, transaction) == FALSE

\* Blocks::contains_transaction (named after its type: Speculate has a
\* contains_transaction too)
BlocksContainsTransaction(self, transaction) ==
    \E i \in 1..Len(self.transactions) : Contains(self.transactions[i].v, transaction)

\* Blocks::contains_serial_number and contains_commitment
ContainsSerialNumber(self, serial_number) ==
    \E i \in 1..Len(self.transactions) : serial_number \in SerialNumbers(self.transactions[i].v)
ContainsCommitment(self, commitment) ==
    \E i \in 1..Len(self.transactions) : commitment \in Commitments(self.transactions[i].v)

\* A proposal at the height of the latest block.
ProposeBlock_SameHeight(self, transactions, now) ==
    Ok(Block(LatestBlockHash(self),
             Header(LatestStateRoot(self), ToRoot(transactions), LatestBlockHeight(self), now),
             transactions))

\* Blocks::propose_block; `now` is OffsetDateTime::now_utc().unix_timestamp().
ProposeBlock(self, transactions, now) ==
    Ok(Block(LatestBlockHash(self),
             Header(LatestStateRoot(self), ToRoot(transactions), LatestBlockHeight(self) + 1, now),
             transactions))

\* The stored transactions, in the order of the heights and of the blocks.
StoredTransactions(self) ==
    Flatten([i \in 1..Len(self.transactions) |-> self.transactions[i].v])

\* A search that settles for the first match.
ExactlyOne_First(found, message) ==
    IF Len(found) = 0 THEN Error(message) ELSE Ok(found[1])

\* `if found.len() != 1 { return Err(..) }`, then found[0]
ExactlyOne(found, message) ==
    IF Len(found) # 1 THEN Error(message) ELSE Ok(found[1])

\* BlockTree::prove(leaf_index, leaf): a path for the leaf at that index, an
\* Err when the tree has no such leaf there.
Prove(tree, leaf_index, leaf) ==
    IF leaf_index + 1 \in 1..Len(tree) /\ tree[leaf_index + 1] = leaf
    THEN Ok([leaf_index |-> leaf_index, leaf |-> leaf])
    ELSE Error("block_tree.prove")

\* MerklePath::verify(root, leaf)
Verify(path, root, leaf) ==
    /\ path.leaf = leaf
    /\ path.leaf_index + 1 \in 1..Len(root)
    /\ root[path.leaf_index + 1] = leaf

\* The steps of to_state_path after a single transaction, height and
\* transition were found.
StatePathOf(self, commitment, transaction, block_height, transition) ==
    IF ~GetBlockHeader(self, block_height).ok THEN GetBlockHeader(self, block_height)
    ELSE IF ~GetBlockTransactions(self, block_height).ok
    THEN GetBlockTransactions(self, block_height)
    ELSE IF ~GetPreviousBlockHash(self, LatestBlockHeight(self)).ok
    THEN GetPreviousBlockHash(self, LatestBlockHeight(self))
    ELSE IF ~Prove(self.block_tree, LatestBlockHeight(self), LatestBlockHash(self)).ok
    THEN Prove(self.block_tree, LatestBlockHeight(self), LatestBlockHash(self))
    ELSE Ok([state_root |-> LatestStateRoot(self),
             block_path |-> Prove(self.block_tree, LatestBlockHeight(self),
                                  LatestBlockHash(self)).value,
             block_hash |-> LatestBlockHash(self),
             previous_block_hash |-> GetPreviousBlockHash(self, LatestBlockHeight(self)).value,
             header |-> GetBlockHeader(self, block_height).value,
             transaction_index |->
                 FirstIndex([j \in 1..Len(GetBlockTransactions(self, block_height).value) |->
                                GetBlockTransactions(self, block_height).value[j].id],
                            transaction.id) - 1,
             transaction_id |-> transaction.id,
             transition_id |-> transition.id,
             commitment |-> commitment])

\* The searches of to_state_path for the transition and, before it, for the
\* block height.
WithTransition(self, commitment, transaction, block_height, transition) ==
    IF ~transition.ok THEN transition
    ELSE StatePathOf(self, commitment, transaction, block_height, transition.value)

WithBlockHeight(self, commitment, transaction, block_height) ==
    IF ~block_height.ok THEN block_height
    ELSE IF ~GetBlockHeader(self, block_height.value.k).ok
    THEN GetBlockHeader(self, block_height.value.k)
    ELSE WithTransition(self, commitment, transaction, block_height.value.k,
             ExactlyOne(SelectSeq(transaction.transitions,
                                  LAMBDA transition : commitment \in transition.commitments),
                        "Multiple transitions associated with commitment"))

WithTransaction(self, commitment, transaction) ==
    IF ~transaction.ok THEN transaction
    ELSE WithBlockHeight(self, commitment, transaction.value,
             ExactlyOne(SelectSeq(self.transactions,
                                  LAMBDA entry : \E j \in 1..Len(entry.v) :
                                                    entry.v[j].id = transaction.value.id),
                        "Multiple block heights associated with transaction id"))

\* Blocks::to_state_path
ToStatePath(self, commitment) ==
    WithTransaction(self, commitment,
        ExactlyOne(SelectSeq(StoredTransactions(self),
                             LAMBDA transaction : commitment \in transaction.commitments),
                   "Multiple transactions associated with commitment"))

\* The steps of the atomic section of add_next on the clone `blocks`; `fault`
\* names the step whose `?` returns Err, if any.  What a failing step leaves
\* behind in the clone is returned with it.
AppendAndInsert(blocks, block, fault) ==
    IF fault = "append"
    THEN [ok |-> FALSE, message |-> "block_tree.append", blocks |-> blocks]
    ELSE IF fault = "insert"
    THEN [ok |-> FALSE, message |-> "previous_hashes.insert",
          blocks |-> [blocks EXCEPT !.block_tree = Append(@, Hash(block))]]
    ELSE [ok |-> TRUE, message |-> "",
          blocks |-> [blocks EXCEPT
                         !.block_tree = Append(@, Hash(block)),
                         !.previous_hashes = MapInsert(@, block.header.height, block.previous_hash),
                         !.headers = MapInsert(@, block.header.height, block.header),
                         !.transactions = MapInsert(@, block.header.height, block.transactions)]]

\* An atomic section that works on self instead of a clone: what a failing
\* step left behind stays.
Replace_InPlace(m, self) ==
    [result |-> IF m.ok THEN Ok(<<>>) ELSE Error(m.message), self |-> m.blocks]

\* *self = blocks, reached only when no step of the section failed.
Replace(m, self) ==
    IF m.ok THEN [result |-> Ok(<<>>), self |-> m.blocks]
    ELSE [result |-> Error(m.message), self |-> self]

\* The atomic section of add_next: clone, mutate the clone, replace self.
AddToLedger(self, block, fault) ==
    Replace(AppendAndInsert([self EXCEPT !.current_height = block.header.height,
                                         !.current_hash = Hash(block)],
                            block, fault),
            self)

\* A timestamp check that lets a block with the current timestamp through.
TimestampIsAfter_AllowsEqual(current_block, block) ==
    IF ~current_block.ok THEN current_block
    ELSE IF block.header.timestamp < current_block.value.header.timestamp
    THEN Error("The given block timestamp is before the current timestamp")
    ELSE Ok(<<>>)

\* The timestamp check of add_next: `current_block` is self.latest_block().
TimestampIsAfter(current_block, block) ==
    IF ~current_block.ok THEN current_block
    ELSE IF block.header.timestamp <= current_block.value.header.timestamp
    THEN Error("The given block timestamp is before the current timestamp")
    ELSE Ok(<<>>)

\* The checks of add_next, in order; Ok when the block passes all of them.
CheckNext(self, block) ==
    IF LatestBlockHeight(self) # 0 /\ LatestBlockHeight(self) + 1 # block.header.height
    THEN Error("The given block has an incorrect block height")
    ELSE IF ContainsHeight(self, block.header.height)
    THEN Error("The given block height already exists in the ledger")
    ELSE IF self.current_hash # block.previous_hash
    THEN Error("The given block has an incorrect previous block hash")
    ELSE IF ContainsBlockHash(self, Hash(block))
    THEN Error("The given block hash already exists in the ledger")
    ELSE IF ContainsHeight(self, 0) /\ ~TimestampIsAfter(LatestBlock(self), block).ok
    THEN TimestampIsAfter(LatestBlock(self), block)
    ELSE IF \E i \in 1..Len(block.transactions) :
                BlocksContainsTransaction(self, block.transactions[i])
    THEN Error("The given block has a duplicate transaction in the ledger")
    ELSE IF \E serial_number \in SerialNumbers(block.transactions) :
                ContainsSerialNumber(self, serial_number)
    THEN Error("Serial number already exists in the ledger")
    ELSE IF \E commitment \in Commitments(block.transactions) :
                ContainsCommitment(self, commitment)
    THEN Error("Commitment already exists in the ledger")
    ELSE Ok(<<>>)

\* Blocks::add_next
AddNext(self, block, fault) ==
    IF ~CheckNext(self, block).ok
    THEN [result |-> CheckNext(self, block), self |-> self]
    ELSE AddToLedger(self, block, fault)

\* ------------------------------------------------------------------------
\* The state machine.
\* ------------------------------------------------------------------------
VARIABLES
    store,                   \* the program store of the VM
    finalized,               \* how many times the VM finalized into the store
    latest_storage_root,     \* Speculate.latest_storage_root
    processed_transactions,  \* Speculate.processed_transactions
    accepted_transactions,   \* Speculate.accepted_transactions
    speculate_state,         \* Speculate.speculate_state
    operations,              \* Speculate.operations
    rejected,                \* the ids logged as "Failed to speculate transaction"
    blocks,                  \* the Blocks chain: a record of its six fields
    objects,                 \* the instances and chains alive next to their clones, by handle
    last                     \* the last call: its name, argument, result and the instance before it

vars == << store, finalized, latest_storage_root, processed_transactions,
           accepted_transactions, speculate_state, operations, rejected, blocks, objects,
           last >>

\* The Speculate instance of the current state.
Self ==
    [latest_storage_root    |-> latest_storage_root,
     processed_transactions |-> processed_transactions,
     accepted_transactions  |-> accepted_transactions,
     speculate_state        |-> speculate_state,
     operations             |-> operations]

Install(self) ==
    /\ latest_storage_root'    = self.latest_storage_root
    /\ processed_transactions' = self.processed_transactions
    /\ accepted_transactions'  = self.accepted_transactions
    /\ speculate_state'        = self.speculate_state
    /\ operations'             = self.operations

Call(op, arg, result) ==
    [op |-> op, arg |-> arg, result |-> result, before |-> Self, rejected_before |-> rejected]

\* The transactions submitted in batches: the mint, the two transfers (one
\* within the balance, one above it) and the execution whose second
\* finalize fails.
BatchIds == {3, 4, 5, 7}

Batches == UNION {[1..n -> BatchIds] : n \in 0..MaxBatch}

Init ==
    /\ store = InitialStore
    /\ finalized = 0
    /\ latest_storage_root = CurrentStorageRoot(InitialStore)
    /\ processed_transactions = <<>>
    /\ accepted_transactions = <<>>
    /\ speculate_state = <<>>
    /\ operations = <<>>
    /\ rejected = {}
    /\ blocks = BlocksNew
    /\ objects = [speculates |-> << New(CurrentStorageRoot(InitialStore)) >>,
                  chains |-> << BlocksNew >>,
                  speculate_clone |-> 0, blocks_clone |-> 0, calls |-> 0]
    /\ last = [op |-> "new", arg |-> <<>>, result |-> Ok(<<>>),
               before |-> New(CurrentStorageRoot(InitialStore)), rejected_before |-> {}]

\* Speculate::new(vm.program_store().current_storage_root())
NewCall ==
    /\ Self # New(CurrentStorageRoot(store))
    /\ Install(New(CurrentStorageRoot(store)))
    /\ rejected' = {}
    /\ last' = [op |-> "new", arg |-> <<>>, result |-> Ok(<<>>),
                before |-> New(CurrentStorageRoot(store)), rejected_before |-> {}]
    /\ UNCHANGED << objects, blocks, store, finalized >>

\* speculate.speculate_transaction(&vm, &transaction)
SpeculateTransactionCall(id) ==
    \E r \in {SpeculateTransaction(Self, store, Tx(id))} :
       /\ Len(r.self.processed_transactions) <= MaxProcessed
       /\ Install(r.self)
       /\ rejected' = IF r.result.ok /\ ~r.result.value THEN rejected \cup {id} ELSE rejected
       /\ last' = Call("speculate_transaction", << id >>, r.result)
       /\ UNCHANGED << objects, blocks, store, finalized >>

\* speculate.speculate_transactions(&vm, &transactions)
SpeculateTransactionsCall(batch) ==
    /\ Len(processed_transactions) + Len(batch) <= MaxProcessed + 1
    /\ \E r \in {SpeculateTransactions(Self, store, [i \in 1..Len(batch) |-> Tx(batch[i])])} :
       /\ Len(r.self.processed_transactions) <= MaxProcessed
       /\ Install(r.self)
       /\ rejected' = rejected \cup r.failed
       /\ last' = Call("speculate_transactions", batch, r.result)
       /\ UNCHANGED << objects, blocks, store, finalized >>

\* A commit that drains the operation log it reconciled.
CommitCall_DrainsLog ==
    /\ last' = Call("commit", <<>>, Commit(Self, store))
    /\ operations' = <<>>
    /\ UNCHANGED << objects, blocks, store, finalized, latest_storage_root, processed_transactions,
                    accepted_transactions, speculate_state, rejected >>

\* speculate.commit(&vm)
CommitCall ==
    /\ last' = Call("commit", <<>>, Commit(Self, store))
    /\ UNCHANGED << objects, blocks, store, finalized, latest_storage_root, processed_transactions,
                    accepted_transactions, speculate_state, operations, rejected >>

\* vm.finalize(transactions): the VM finalizes a transaction into the program
\* store, which moves the storage root under the Speculate instance.
VmFinalize(id) ==
    /\ finalized < MaxFinalize
    /\ \E f \in {FinalizeAll(store, << id >>)} :
       /\ f.ok
       /\ f.store # store
       /\ store' = f.store
       /\ finalized' = finalized + 1
       /\ last' = Call("finalize", << id >>, Ok(<<>>))
       /\ UNCHANGED << objects, blocks, latest_storage_root, processed_transactions,
                       accepted_transactions, speculate_state, operations, rejected >>

Next ==
    \/ NewCall
    \/ \E id \in SingleIds : SpeculateTransactionCall(id)
    \/ \E batch \in Batches : SpeculateTransactionsCall(batch)
    \/ CommitCall
    \/ \E id \in FinalizableIds : VmFinalize(id)

Spec == Init /\ [][Next]_vars

\* ------------------------------------------------------------------------
\* The batches of test_speculate_many: each on a fresh instance over the
\* store with balance(A) = 20.
\* ------------------------------------------------------------------------
\* The longest batch of mints and transfers.
MaxMany == 4

\* mint_10, transfer_20, transfer_30, transfer_10 and mint_20.
ManyIds == {3, 4, 5, 10, 11}

ManyBatches == UNION {[1..n -> ManyIds] : n \in 0..MaxMany}

\* Speculate::new followed by speculate.speculate_transactions(&vm, &transactions)
SpeculateManyCall(batch) ==
    /\ Self = New(CurrentStorageRoot(store))
    /\ \E r \in {SpeculateTransactions(Self, store, [i \in 1..Len(batch) |-> Tx(batch[i])])} :
       /\ Install(r.self)
       /\ rejected' = r.failed
       /\ last' = Call("speculate_transactions", batch, r.result)
       /\ UNCHANGED << objects, blocks, store, finalized >>

ManyNext ==
    \/ NewCall
    \/ \E batch \in ManyBatches : SpeculateManyCall(batch)
    \/ CommitCall

ManySpec == Init /\ [][ManyNext]_vars

\* ------------------------------------------------------------------------
\* The overlay alone: update_key_value and get_value called directly.
\* ------------------------------------------------------------------------
\* How many update_key_value calls one instance receives.
MaxUpdates == 3

\* The programs, mapping names, keys and values the overlay is called with.
OverlayPrograms == {"credits.aleo", "token.aleo"}
OverlayMappings == {"account", "balances"}
OverlayKeysUsed == {"A", "B"}
OverlayValues == {1, 2}

\* The (program, mapping, key) triples update_key_value was called with.
Written == IF last.op \in {"update_key_value", "get_value"} THEN last.written ELSE {}

\* How many update_key_value calls the instance received.
Updates == IF last.op \in {"update_key_value", "get_value"} THEN last.updates ELSE 0

\* speculate.update_key_value(&program_id, &mapping_name, key, value)
UpdateKeyValueCall(program_id, mapping_name, key, value) ==
    /\ Updates < MaxUpdates
    /\ Install(UpdateKeyValue(Self, program_id, mapping_name, key, value))
    /\ last' = [op |-> "update_key_value", arg |-> << program_id, mapping_name, key, value >>,
                result |-> Ok(<<>>), before |-> Self, rejected_before |-> rejected,
                written |-> Written \cup {<< program_id, mapping_name, key >>},
                updates |-> Updates + 1]
    /\ UNCHANGED << objects, blocks, store, finalized, rejected >>

\* speculate.get_value(&program_id, &mapping_name, &key)
GetValueCall(program_id, mapping_name, key) ==
    /\ last' = [op |-> "get_value", arg |-> << program_id, mapping_name, key >>,
                result |-> Ok(GetValue(Self, program_id, mapping_name, key)),
                before |-> Self, rejected_before |-> rejected,
                written |-> Written, updates |-> Updates]
    /\ UNCHANGED << objects, blocks, store, finalized, latest_storage_root, processed_transactions,
                    accepted_transactions, speculate_state, operations, rejected >>

OverlayNext ==
    \/ \E program_id \in OverlayPrograms, mapping_name \in OverlayMappings,
          key \in OverlayKeysUsed, value \in OverlayValues :
            UpdateKeyValueCall(program_id, mapping_name, key, value)
    \/ \E program_id \in OverlayPrograms, mapping_name \in OverlayMappings,
          key \in OverlayKeysUsed :
            GetValueCall(program_id, mapping_name, key)

OverlaySpec == Init /\ [][OverlayNext]_vars

\* ------------------------------------------------------------------------
\* The chain: add_next called with blocks that are right or wrong in their
\* height, previous hash, timestamp and transactions.
\* ------------------------------------------------------------------------
\* The transactions blocks are built from: t1 and t2 share a serial number,
\* t1 and t3 share a commitment, t4 shares nothing, t5 has neither serial
\* numbers nor commitments (all of its inputs and outputs are public).
T1 == BlockTransaction("t1", {"s1"}, {"c1"})
T2 == BlockTransaction("t2", {"s1"}, {"c2"})
T3 == BlockTransaction("t3", {"s2"}, {"c1"})
T4 == BlockTransaction("t4", {"s3"}, {"c3"})
T5 == BlockTransaction("t5", {}, {})

TransactionLists ==
    {<< T1 >>, << T2 >>, << T3 >>, << T4 >>, << T5 >>, << T1, T2 >>, << T1, T3 >>,
     GenesisBlock.transactions}

\* The blocks handed to add_next in a chain state: the genesis block and the
\* blocks over every height, timestamp and transaction list whose previous
\* hash is the current hash or the one of the genesis block and whose
\* previous state root is the latest state root or the one of the genesis
\* block.
CandidateBlocks(self) ==
    {GenesisBlock} \cup
    {Block(previous_hash, Header(previous_state_root, ToRoot(transactions), height, timestamp),
           transactions) :
        previous_hash \in {self.current_hash, GenesisBlock.previous_hash},
        previous_state_root \in {LatestStateRoot(self), GenesisBlock.header.previous_state_root},
        height \in 0..MaxHeight, timestamp \in 0..MaxTimestamp,
        transactions \in TransactionLists}

\* The step of the atomic section that fails, if any.
Faults == {"none", "append", "insert"}

\* blocks.add_next(&block); the block of a rejected call is not kept in
\* `last`, its error message is.
AddNextCall(block, fault) ==
    /\ fault = "none" \/ CheckNext(blocks, block).ok
    /\ \E r \in {AddNext(blocks, block, fault)} :
       /\ blocks' = r.self
       /\ last' = [op |-> "add_next", arg |-> IF r.result.ok THEN block ELSE <<>>,
                   result |-> r.result, before |-> blocks]
    /\ UNCHANGED << objects, store, finalized, latest_storage_root, processed_transactions,
                    accepted_transactions, speculate_state, operations, rejected >>

ChainNext == \E block \in CandidateBlocks(blocks), fault \in Faults : AddNextCall(block, fault)

ChainSpec == Init /\ [][ChainNext]_vars


\* ------------------------------------------------------------------------
\* The ledger in use: blocks are proposed and appended, and state paths are
\* asked for.  The blocks handed to add_next are built on the latest hash
\* and state root, at any height and timestamp.
\* ------------------------------------------------------------------------
\* The transaction lists handed to propose_block.
ProposalLists == {<< T4 >>, << T1, T2 >>}

\* t6 has two transitions that hold the same commitment; t7 has the id of t1
\* and another body.  add_next validates neither.
T6 ==
    [BlockTransaction("t6", {"s4"}, {"c4"}) EXCEPT
        !.transitions = << [id |-> << "t6", 1 >>, commitments |-> {"c4"}],
                           [id |-> << "t6", 2 >>, commitments |-> {"c4"}] >>]
T7 == BlockTransaction("t1", {"s5"}, {"c5"})

LedgerLists == {<< T1 >>, << T4 >>, << T5 >>, << T6 >>, << T7 >>, << T1, T3 >>}

LedgerBlocks(self) ==
    {Block(LatestBlockHash(self),
           Header(LatestStateRoot(self), ToRoot(transactions), height, timestamp),
           transactions) :
        height \in 1..MaxHeight, timestamp \in 0..MaxTimestamp,
        transactions \in LedgerLists}

\* The commitments state paths are asked for; no transaction holds "cx".
PathCommitments == {"c0", "c1", "c3", "c4", "c5", "cx"}

\* blocks.to_state_path(&commitment): the chain is only read.
ToStatePathCall(commitment) ==
    /\ last' = [op |-> "to_state_path", arg |-> commitment,
                result |-> ToStatePath(blocks, commitment), before |-> blocks]
    /\ UNCHANGED << blocks, objects, store, finalized, latest_storage_root,
                    processed_transactions, accepted_transactions, speculate_state,
                    operations, rejected >>

\* blocks.propose_block(transactions): the chain is only read.
ProposeBlockCall(transactions, now) ==
    /\ last' = [op |-> "propose_block", arg |-> transactions,
                result |-> ProposeBlock(blocks, transactions, now), before |-> blocks]
    /\ UNCHANGED << blocks, objects, store, finalized, latest_storage_root,
                    processed_transactions, accepted_transactions, speculate_state,
                    operations, rejected >>

\* blocks.add_next(&new_block) right after new_block = propose_block(..)
AddProposedCall(fault) ==
    /\ last.op = "propose_block"
    /\ last.result.ok
    /\ last.result.value.header.height <= MaxHeight
    /\ AddNextCall(last.result.value, fault)

LedgerNext ==
    \/ \E block \in LedgerBlocks(blocks) : AddNextCall(block, "none")
    \/ \E transactions \in ProposalLists, now \in 0..MaxTimestamp :
           ProposeBlockCall(transactions, now)
    \/ \E fault \in Faults : AddProposedCall(fault)
    \/ \E commitment \in PathCommitments : ToStatePathCall(commitment)

LedgerSpec == Init /\ [][LedgerNext]_vars

\* ------------------------------------------------------------------------
\* Executions of one and of two transitions, speculated one at a time.
\* ------------------------------------------------------------------------
OrderIds == {1, 3, 4, 6, 7, 12}

OrderNext ==
    \/ NewCall
    \/ \E id \in OrderIds : SpeculateTransactionCall(id)
    \/ CommitCall

OrderSpec == Init /\ [][OrderNext]_vars

\* ------------------------------------------------------------------------
\* Clones: a Speculate instance and a Blocks chain, each next to a clone of
\* it.  `objects` holds the values by handle; handle 1 is the original, a
\* clone handle of 0 says that no clone was taken yet.
\* ------------------------------------------------------------------------
\* How many calls the originals and the clones receive after construction.
MaxCloneCalls == 3

\* A clone that hands out the object itself: the handle of the original.
Clone_SameObject(heap, handle) == [heap |-> heap, handle |-> handle]

\* #[derive(Clone)] on owned fields (Vec, IndexMap, MemoryMap, the tree): a
\* new object with a copy of every field.
Clone(heap, handle) == [heap |-> Append(heap, heap[handle]), handle |-> Len(heap) + 1]

Targets == {"original", "clone"}

HandleOf(target, clone) == IF target = "original" THEN 1 ELSE clone

\* The blocks propose_block would build on a chain, one per transaction list.
ProposedBlocks(self) ==
    {ProposeBlock(self, transactions, now).value :
        now \in {LatestBlock(self).value.header.timestamp + 1},
        transactions \in {<< T1 >>, << T4 >>}}

CloneCall(op, target) == [op |-> op, target |-> target, before |-> objects]

Frame ==
    UNCHANGED << store, finalized, latest_storage_root, processed_transactions,
                 accepted_transactions, speculate_state, operations, rejected, blocks >>

\* speculate.clone()
CloneSpeculate ==
    /\ objects.speculate_clone = 0
    /\ \E c \in {Clone(objects.speculates, 1)} :
           objects' = [objects EXCEPT !.speculates = c.heap, !.speculate_clone = c.handle]
    /\ last' = CloneCall("Speculate::clone", "original")
    /\ Frame

\* blocks.clone()
CloneBlocks ==
    /\ objects.blocks_clone = 0
    /\ \E c \in {Clone(objects.chains, 1)} :
           objects' = [objects EXCEPT !.chains = c.heap, !.blocks_clone = c.handle]
    /\ last' = CloneCall("Blocks::clone", "original")
    /\ Frame

\* speculate_transaction on the original or on the clone
SpeculateOn(target, id) ==
    /\ objects.calls < MaxCloneCalls
    /\ HandleOf(target, objects.speculate_clone) # 0
    /\ \E r \in {SpeculateTransaction(
                      objects.speculates[HandleOf(target, objects.speculate_clone)],
                      store, Tx(id))} :
           objects' = [objects EXCEPT !.speculates[HandleOf(target, objects.speculate_clone)] = r.self,
                                      !.calls = @ + 1]
    /\ last' = CloneCall("speculate_transaction", target)
    /\ Frame

\* update_key_value on the original or on the clone
UpdateKeyValueOn(target, key, value) ==
    /\ objects.calls < MaxCloneCalls
    /\ HandleOf(target, objects.speculate_clone) # 0
    /\ objects' = [objects EXCEPT
                       !.speculates[HandleOf(target, objects.speculate_clone)] =
                           UpdateKeyValue(@, "credits.aleo", "account", key, value),
                       !.calls = @ + 1]
    /\ last' = CloneCall("update_key_value", target)
    /\ Frame

\* add_next on the original chain or on the cloned one
AddNextOn(target) ==
    /\ objects.calls < MaxCloneCalls
    /\ HandleOf(target, objects.blocks_clone) # 0
    /\ \E block \in ProposedBlocks(objects.chains[HandleOf(target, objects.blocks_clone)]) :
           objects' = [objects EXCEPT
                          !.chains[HandleOf(target, objects.blocks_clone)] =
                              AddNext(@, block, "none").self,
                          !.calls = @ + 1]
    /\ last' = CloneCall("add_next", target)
    /\ Frame

CloneNext ==
    \/ CloneSpeculate
    \/ CloneBlocks
    \/ \E target \in Targets, id \in {3, 4, 7} : SpeculateOn(target, id)
    \/ \E target \in Targets, key \in {"A"}, value \in {1, 2} : UpdateKeyValueOn(target, key, value)
    \/ \E target \in Targets : AddNextOn(target)

CloneSpec == Init /\ [][CloneNext]_vars

\* ------------------------------------------------------------------------
\* Properties.
\* ------------------------------------------------------------------------
\* The store did not move away from the root the instance was created with.
RootMatches == CurrentStorageRoot(store) = latest_storage_root

\* The ids for which a speculate call of this instance had returned Ok
\* before the last call.
ReturnedBefore == last.rejected_before \cup Range(last.before.accepted_transactions)

\* C1: with the storage root unchanged, speculate_transaction returns Ok for an
\* id no earlier call returned Ok for (accepted or rejected) and Err for an id
\* an earlier call returned Ok for; a batch holding an id twice returns Err.
C1_DuplicateGuard ==
    /\ (last.op = "speculate_transaction" /\ RootMatches) =>
           (last.result.ok <=> last.arg[1] \notin ReturnedBefore)
    /\ (last.op = "speculate_transactions" /\ ~NoDuplicates(last.arg)) => ~last.result.ok

\* A rejected transaction was submitted again and the call returned Err.
C1_Witness ==
    /\ last.op = "speculate_transaction"
    /\ RootMatches
    /\ last.arg[1] \in last.rejected_before
    /\ ~last.result.ok

\* C2: speculate_transaction returns Err exactly when the storage root differs
\* or the id is already known; otherwise Ok(true) when the dispatch succeeded
\* and Ok(false) when it failed (deployment of a deployed program, missing
\* finalize inputs, a failing command).
C2_ErrOnlyForGuards ==
    last.op = "speculate_transaction" =>
        /\ ~last.result.ok <=>
               \/ CurrentStorageRoot(store) # last.before.latest_storage_root
               \/ ContainsTransaction(last.before, last.arg[1])
        /\ last.result.ok =>
               (last.result.value <=>
                    Dispatch([last.before EXCEPT !.processed_transactions = Append(@, last.arg[1])],
                             store, Tx(last.arg[1])).ok)
        /\ (last.result.ok /\ last.arg[1] \in {2, 8}) => ~last.result.value
        /\ (/\ last.result.ok
            /\ last.arg[1] = 5
            /\ last.before.speculate_state = <<>>
            /\ StoreGetValue(store, "credits.aleo", "account", "A") = Some(20))
               => ~last.result.value

\* A transfer above the balance came back as Ok(false).
C2_Witness ==
    /\ last.op = "speculate_transaction"
    /\ last.arg[1] = 5
    /\ last.result.ok
    /\ ~last.result.value

\* C3: accepted_transactions is a subsequence of processed_transactions, and
\* every id that was rejected is in processed_transactions and not in
\* accepted_transactions.
C3_AcceptedWithinProcessed ==
    /\ IsSubsequence(accepted_transactions, processed_transactions)
    /\ \A id \in rejected :
           /\ Contains(processed_transactions, id)
           /\ ~Contains(accepted_transactions, id)

\* An accepted transaction came after a rejected one.
C3_Witness ==
    /\ Len(processed_transactions) = 2
    /\ processed_transactions[1] \in rejected
    /\ accepted_transactions = << processed_transactions[2] >>

\* C4: no id occurs twice in processed_transactions, in accepted_transactions
\* or among the keys of operations.
C4_NoDuplicateIds ==
    /\ NoDuplicates(processed_transactions)
    /\ NoDuplicates(accepted_transactions)
    /\ NoDuplicates(Keys(operations))

\* A processed id was submitted again and the lists did not grow.
C4_Witness ==
    /\ last.op = "speculate_transaction"
    /\ Contains(last.before.processed_transactions, last.arg[1])
    /\ processed_transactions = last.before.processed_transactions
    /\ Len(processed_transactions) = 2

\* C5: a batch of distinct ids for which speculate_transactions returns Ok
\* returns the ids of the batch in order without the rejected ones, which is
\* the suffix the call appended to accepted_transactions.
C5_BatchResult ==
    (last.op = "speculate_transactions" /\ NoDuplicates(last.arg) /\ last.result.ok) =>
        LET Kept(id) == id \notin rejected
        IN /\ last.result.value = SelectSeq(last.arg, Kept)
           /\ accepted_transactions = last.before.accepted_transactions \o last.result.value

\* A batch of two with one rejection returned the other id.
C5_Witness ==
    /\ last.op = "speculate_transactions"
    /\ last.result.ok
    /\ Len(last.arg) = 2
    /\ Len(last.result.value) = 1

\* The overlay keys of a Speculate instance, as (program, mapping, key).
OverlayKeys(self) ==
    UNION {UNION {{<< P.k, M.k, E.k >> : E \in Range(M.v)} : M \in Range(P.v)} :
              P \in Range(self.speculate_state)}

C7_StorageRootGuard ==
    ~RootMatches =>
        /\ last.op \in {"speculate_transaction", "commit"} => ~last.result.ok
        /\ (last.op = "speculate_transactions" /\ last.arg # <<>>) => ~last.result.ok
        /\ last.op \in {"speculate_transaction", "speculate_transactions", "commit"} =>
               Self = last.before

\* commit was called on an instance with accepted transactions after the
\* store had moved.
C7_Witness ==
    /\ ~RootMatches
    /\ last.op = "commit"
    /\ ~last.result.ok
    /\ accepted_transactions # <<>>

\* C8: when every processed transaction was accepted and the serial finalize
\* of the same transactions in the same order succeeds, commit returns a
\* storage tree whose root is the root of the store after the serial finalize.
C8_CommitEqualsSerialFinalize ==
    (/\ last.op = "commit"
     /\ RootMatches
     /\ accepted_transactions = processed_transactions
     /\ FinalizeAll(store, processed_transactions).ok) =>
        /\ last.result.ok
        /\ last.result.value = StorageTree(FinalizeAll(store, processed_transactions).store)

\* C9: for a batch speculated on a fresh instance, removing a rejected
\* transaction from the batch gives the same accepted transactions and the
\* same committed storage tree.
C9_RejectionIsolation ==
    (/\ last.op = "speculate_transactions"
     /\ RootMatches
     /\ last.result.ok
     /\ last.before = New(latest_storage_root)) =>
        \A t \in Range(last.arg) \cap rejected :
            \E r \in {SpeculateTransactions(New(latest_storage_root), store,
                          [i \in 1..(Len(last.arg) - 1) |->
                              Tx(last.arg[IF i < FirstIndex(last.arg, t) THEN i ELSE i + 1])])} :
               /\ r.result.ok
               /\ r.self.accepted_transactions = accepted_transactions
               /\ Commit(r.self, store) = Commit(Self, store)

\* C10: when speculate_transaction returns Ok(false), the overlay and the
\* operation log are what they were before the call.
C10_RejectionLeavesNoState ==
    (last.op = "speculate_transaction" /\ last.result.ok /\ ~last.result.value) =>
        /\ speculate_state = last.before.speculate_state
        /\ operations = last.before.operations

\* C11: when the operation log holds no operation, commit returns the
\* store's current storage tree (and so its current root).
C11_CommitWithNoOperations ==
    (last.op = "commit" /\ RootMatches /\ AllOperations(Self) = <<>>) =>
        /\ last.result.ok
        /\ last.result.value = StorageTree(store)
        /\ last.result.value = latest_storage_root

\* commit on an instance that accepted a transaction without operations and
\* rejected another one.
C11_Witness ==
    /\ last.op = "commit"
    /\ RootMatches
    /\ operations = <<>>
    /\ accepted_transactions # <<>>
    /\ rejected # {}
    /\ last.result.ok

\* The speculative balance of an account: the overlay value, the store's
\* value on a miss, 0 when neither has the key.
Balance(self, kv, key) ==
    OrElse(Lookup(OrElse(LookupIn(Lookup(self.speculate_state, "credits.aleo"), "account"), <<>>),
                  key),
           OrElse(StoreGetValue(kv, "credits.aleo", "account", key), 0))

\* C12: on a fresh instance over balance(A) = 20, the batches mint 10,
\* transfer 10, transfer 20 and transfer 20, mint 10, mint 20, transfer 30 are
\* accepted in full and end with speculative balance(A) = 0; and whenever a
\* batch is accepted in full, the speculative balances are those a serial
\* finalize of the batch leaves in the store.
C12_SpeculativeVisibility ==
    (last.op = "speculate_transactions" /\ last.before = New(latest_storage_root)) =>
        /\ last.arg \in {<< 3, 10, 4 >>, << 4, 3, 11, 5 >>} =>
               /\ last.result = Ok(last.arg)
               /\ accepted_transactions = last.arg
               /\ Balance(Self, <<>>, "A") = 0
               /\ Balance(Self, <<>>, "B") = (IF last.arg = << 3, 10, 4 >> THEN 30 ELSE 50)
        /\ (last.result.ok /\ last.result.value = last.arg) =>
               \E f \in {FinalizeAll(store, last.arg)} :
                  /\ f.ok
                  /\ \A key \in {"A", "B"} :
                         Balance(Self, store, key) = Balance(New(<<>>), f.store, key)

\* The batch transfer 20, mint 10, mint 20, transfer 30 was accepted in full.
C12_Witness ==
    /\ last.op = "speculate_transactions"
    /\ last.arg = << 4, 3, 11, 5 >>
    /\ last.result = Ok(<< 4, 3, 11, 5 >>)

\* C13: on a fresh instance over balance(A) = 20, the batch transfer 20,
\* transfer 10 accepts only the transfer of 20; the speculative state and
\* the state commit returns are balance(A) = 0, balance(B) = 20.
C13_RejectedTransfer ==
    (/\ last.op = "speculate_transactions"
     /\ last.before = New(latest_storage_root)
     /\ last.arg = << 4, 10 >>) =>
        /\ last.result = Ok(<< 4 >>)
        /\ rejected = {10}
        /\ Balance(Self, <<>>, "A") = 0
        /\ Balance(Self, <<>>, "B") = 20
        /\ Commit(Self, store) =
               Ok(StorageTree(<< [k |-> "credits.aleo",
                                  v |-> << [k |-> "account",
                                            v |-> << [k |-> "A", v |-> 0],
                                                     [k |-> "B", v |-> 20] >>] >>],
                                 [k |-> "token.aleo",
                                  v |-> << [k |-> "balances", v |-> <<>>] >>] >>))

\* The part of C13 about speculation alone: the accepted list and the overlay.
C13_SpeculativePart ==
    (/\ last.op = "speculate_transactions"
     /\ last.before = New(latest_storage_root)
     /\ last.arg = << 4, 10 >>) =>
        /\ last.result = Ok(<< 4 >>)
        /\ rejected = {10}
        /\ Balance(Self, <<>>, "A") = 0
        /\ Balance(Self, <<>>, "B") = 20

\* The order of the overlay: its program ids, the mapping names of each
\* program and the keys of each mapping, in their positions.
KeyOrder(self) ==
    [i \in 1..Len(self.speculate_state) |->
        << self.speculate_state[i].k,
           [j \in 1..Len(self.speculate_state[i].v) |->
               << self.speculate_state[i].v[j].k, Keys(self.speculate_state[i].v[j].v) >>] >>]

OverlayTriples == OverlayPrograms \X OverlayMappings \X OverlayKeysUsed

\* C15: after update_key_value(p, m, k, v), get_value(p, m, k) is v and every
\* other (program, mapping, key) reads as before; an update with the value
\* already there changes nothing; an overwrite keeps every position; and
\* get_value is None for every triple never written, whatever the store holds.
C15_OverlayRoundTrip ==
    /\ last.op = "update_key_value" =>
           /\ GetValue(Self, last.arg[1], last.arg[2], last.arg[3]) = Some(last.arg[4])
           /\ \A t \in OverlayTriples \ {<< last.arg[1], last.arg[2], last.arg[3] >>} :
                  GetValue(Self, t[1], t[2], t[3]) = GetValue(last.before, t[1], t[2], t[3])
           /\ GetValue(last.before, last.arg[1], last.arg[2], last.arg[3]) = Some(last.arg[4]) =>
                  Self = last.before
           /\ GetValue(last.before, last.arg[1], last.arg[2], last.arg[3]).some =>
                  KeyOrder(Self) = KeyOrder(last.before)
    /\ last.op = "get_value" =>
           /\ last.result.ok
           /\ << last.arg[1], last.arg[2], last.arg[3] >> \notin Written =>
                  last.result.value = None
           /\ Self = last.before
    /\ \A t \in OverlayTriples \ Written : GetValue(Self, t[1], t[2], t[3]) = None

\* A key that was not the last one of its mapping was overwritten with another
\* value.
C15_Witness ==
    /\ last.op = "update_key_value"
    /\ GetValue(last.before, last.arg[1], last.arg[2], last.arg[3]).some
    /\ GetValue(last.before, last.arg[1], last.arg[2], last.arg[3]) # Some(last.arg[4])
    /\ \E i \in 1..Len(speculate_state) : \E j \in 1..Len(speculate_state[i].v) :
           /\ speculate_state[i].k = last.arg[1]
           /\ speculate_state[i].v[j].k = last.arg[2]
           /\ Len(speculate_state[i].v[j].v) = 2
           /\ speculate_state[i].v[j].v[1].k = last.arg[3]

\* The heights the chain stores a block for.
StoredHeights(self) == {self.previous_hashes[i].k : i \in 1..Len(self.previous_hashes)}

\* C16: whenever add_next returns Err, from a check or from a failing step
\* of its atomic section, every field of the chain is as before the call.
C16_AddNextAllOrNothing ==
    (last.op = "add_next" /\ ~last.result.ok) => blocks = last.before

\* The map insert of the atomic section failed on a chain of two blocks,
\* after the clone's height, hash and tree had been changed.
C16_Witness ==
    /\ last.op = "add_next"
    /\ ~last.result.ok
    /\ last.result.value = "previous_hashes.insert"
    /\ blocks.current_height = 1
    /\ Len(blocks.block_tree) = 2

\* C17: the stored heights are exactly 0..latest_height, and add_next accepts
\* a block only when its header height is latest_height + 1.
C17_ContiguousHeights ==
    /\ StoredHeights(blocks) = 0..LatestBlockHeight(blocks)
    /\ (last.op = "add_next" /\ last.result.ok) =>
           last.arg.header.height = LatestBlockHeight(last.before) + 1

\* The hash linkage of a chain: each stored previous hash is the hash of the
\* block stored one height below, and get_block_hash answers every height
\* up to the latest with the hash of the block stored there.
HashLinkage(self) ==
    /\ \A h \in StoredHeights(self) \ {0} :
           /\ GetBlock(self, h - 1).ok
           /\ MapGet(self.previous_hashes, h) = Hash(GetBlock(self, h - 1).value)
    /\ \A h \in 0..LatestBlockHeight(self) :
           /\ GetBlockHash(self, h).ok
           /\ GetBlock(self, h).ok
           /\ GetBlockHash(self, h).value = Hash(GetBlock(self, h).value)

\* C18: every reachable chain state has the hash linkage.
C18_HashLinkage == HashLinkage(blocks)

\* The hash linkage of the chains without a gap in their heights.
C18_LinkageWithoutGaps ==
    StoredHeights(blocks) = 0..LatestBlockHeight(blocks) => HashLinkage(blocks)

\* C19: add_next rejects, with the chain unchanged, every block whose
\* timestamp is not after the one of the latest stored block, whatever else
\* the block holds; so the stored header timestamps grow strictly with the
\* height.
C19_MonotoneTimestamps ==
    /\ LatestBlock(blocks).ok
    /\ \A block \in CandidateBlocks(blocks) :
           block.header.timestamp <= LatestBlock(blocks).value.header.timestamp =>
               \E r \in {AddNext(blocks, block, "none")} : ~r.result.ok /\ r.self = blocks
    /\ (last.op = "add_next" /\ last.result.ok) =>
           last.arg.header.timestamp > LatestBlock(last.before).value.header.timestamp
    /\ \A i, j \in 1..Len(blocks.headers) :
           blocks.headers[i].k < blocks.headers[j].k =>
               blocks.headers[i].v.timestamp < blocks.headers[j].v.timestamp

\* A block was appended at height 1 and the next one was rejected for its
\* timestamp.
C19_Witness ==
    /\ last.op = "add_next"
    /\ ~last.result.ok
    /\ last.result.value = "The given block timestamp is before the current timestamp"
    /\ blocks.current_height = 1
    /\ blocks = last.before

\* The places (map entry, position in its list) of the stored transactions.
Places(self) ==
    UNION {{<< i, j >> : j \in 1..Len(self.transactions[i].v)} : i \in 1..Len(self.transactions)}

StoredTransaction(self, place) == self.transactions[place[1]].v[place[2]]

\* C20: no serial number and no commitment is held by two stored
\* transactions, of different blocks or of the same block.
C20_ChainUniqueness ==
    \A p, q \in Places(blocks) :
        p # q =>
            /\ StoredTransaction(blocks, p).serial_numbers
                    \cap StoredTransaction(blocks, q).serial_numbers = {}
            /\ StoredTransaction(blocks, p).commitments
                    \cap StoredTransaction(blocks, q).commitments = {}

\* The uniqueness across blocks alone: two transactions stored at different
\* heights share no serial number and no commitment.
C20_UniqueAcrossBlocks ==
    \A p, q \in Places(blocks) :
        p[1] # q[1] =>
            /\ StoredTransaction(blocks, p).serial_numbers
                    \cap StoredTransaction(blocks, q).serial_numbers = {}
            /\ StoredTransaction(blocks, p).commitments
                    \cap StoredTransaction(blocks, q).commitments = {}

\* ------------------------------------------------------------------------
\* C14
\* ------------------------------------------------------------------------
Other(target) == IF target = "original" THEN "clone" ELSE "original"

\* C14 (clone independence): once a Speculate instance (or a Blocks chain)
\* has a clone, a speculate_transaction or update_key_value call on one of
\* the two (or an add_next on one of the two chains) leaves every field of
\* the other as it was before the call; and the clone starts out equal to
\* the original.
C14_CloneIndependence ==
    /\ (last.op \in {"speculate_transaction", "update_key_value"} /\ objects.calls > 0
            /\ objects.speculate_clone # 0) =>
           /\ objects.speculates[HandleOf(Other(last.target), objects.speculate_clone)]
                  = last.before.speculates[HandleOf(Other(last.target), last.before.speculate_clone)]
           /\ objects.chains = last.before.chains
    /\ (last.op = "add_next" /\ objects.calls > 0 /\ objects.blocks_clone # 0) =>
           /\ objects.chains[HandleOf(Other(last.target), objects.blocks_clone)]
                  = last.before.chains[HandleOf(Other(last.target), last.before.blocks_clone)]
           /\ objects.speculates = last.before.speculates
    /\ last.op = "Speculate::clone" =>
           /\ objects.speculates[objects.speculate_clone] = last.before.speculates[1]
           /\ objects.speculates[1] = last.before.speculates[1]
    /\ last.op = "Blocks::clone" =>
           /\ objects.chains[objects.blocks_clone] = last.before.chains[1]
           /\ objects.chains[1] = last.before.chains[1]

\* A transaction was just speculated and accepted on the clone of an
\* instance that had already processed one, while the cloned chain has
\* grown a block the original chain does not have.
C14_Witness ==
    /\ last.op = "speculate_transaction" /\ objects.calls > 0
    /\ last.target = "clone"
    /\ objects.speculate_clone # 0 /\ objects.blocks_clone # 0
    /\ last.before.speculates[1].processed_transactions # << >>
    /\ Len(objects.speculates[objects.speculate_clone].accepted_transactions)
           > Len(objects.speculates[1].accepted_transactions)
    /\ objects.speculates[objects.speculate_clone].operations # objects.speculates[1].operations
    /\ LatestBlockHeight(objects.chains[objects.blocks_clone])
           > LatestBlockHeight(objects.chains[1])

\* ------------------------------------------------------------------------
\* C21 .. C26: the chain
\* ------------------------------------------------------------------------
\* C21 (state-root linkage): the header of every block add_next accepted
\* names, as its previous state root, the root of the block tree in the
\* state right before that add_next.
C21_StateRootLinkage ==
    (last.op = "add_next" /\ last.result.ok) =>
        last.arg.header.previous_state_root = LatestStateRoot(last.before)

\* C22 (transaction uniqueness): add_next rejects, with the chain unchanged,
\* every block that carries a transaction equal to a stored one, whatever
\* else the block holds; so no transaction is stored under two heights.
C22_TransactionUniqueness ==
    /\ \A block \in CandidateBlocks(blocks) :
           (\E i \in 1..Len(block.transactions) : \E p \in Places(blocks) :
                StoredTransaction(blocks, p) = block.transactions[i]) =>
               \E r \in {AddNext(blocks, block, "none")} : ~r.result.ok /\ r.self = blocks
    /\ \A p, q \in Places(blocks) :
           p[1] # q[1] => StoredTransaction(blocks, p) # StoredTransaction(blocks, q)

\* The transaction without serial numbers and commitments is stored at
\* height 1, and a block of the right height, previous hash and timestamp
\* that carries it again was rejected for it.
C22_Witness ==
    /\ last.op = "add_next"
    /\ ~last.result.ok
    /\ last.result.value = "The given block has a duplicate transaction in the ledger"
    /\ GetBlockTransactions(blocks, 1).ok
    /\ GetBlockTransactions(blocks, 1).value = << T5 >>
    /\ \E block \in CandidateBlocks(blocks) :
           /\ block.transactions = << T5 >>
           /\ block.header.height = LatestBlockHeight(blocks) + 1
           /\ block.previous_hash = LatestBlockHash(blocks)
           /\ block.header.timestamp > LatestBlock(blocks).value.header.timestamp
           /\ ~AddNext(blocks, block, "none").result.ok

\* C23: on the chain Blocks::new() built, add_next(genesis block) returns Ok
\* and leaves the latest height 0 and the latest hash the genesis hash.
C23_AddNextGenesis ==
    blocks = BlocksNew =>
        \E r \in {AddNext(blocks, GenesisBlock, "none")} :
            /\ r.result.ok
            /\ LatestBlockHeight(r.self) = 0
            /\ LatestBlockHash(r.self) = Hash(GenesisBlock)

\* What add_next(genesis block) does on that chain: it returns the Err of
\* the contains_height check and leaves the chain as it is, whatever the
\* other fields of the height-0 block are.
C23_GenesisRejected ==
    blocks = BlocksNew =>
        \A block \in CandidateBlocks(blocks) :
            block.header.height = 0 =>
                \E r \in {AddNext(blocks, block, "none")} :
                    /\ r.result = Error("The given block height already exists in the ledger")
                    /\ r.self = BlocksNew
                    /\ LatestBlockHeight(r.self) = 0
                    /\ LatestBlockHash(r.self) = Hash(GenesisBlock)

\* No transaction, serial number or commitment of `transactions` is stored
\* in the chain, and `now` is later than the timestamp of the latest block.
Appendable(self, transactions, now) ==
    /\ \A i \in 1..Len(transactions) : \A p \in Places(self) :
           /\ StoredTransaction(self, p) # transactions[i]
           /\ StoredTransaction(self, p).serial_numbers \cap transactions[i].serial_numbers = {}
           /\ StoredTransaction(self, p).commitments \cap transactions[i].commitments = {}
    /\ LatestBlock(self).ok
    /\ now > LatestBlock(self).value.header.timestamp

\* C24 (propose, then append): in every chain state propose_block returns a
\* block of height latest + 1 whose previous hash is the latest block hash
\* and whose previous state root is the latest state root; when nothing of
\* the transactions is stored yet and the proposal's timestamp is later than
\* the latest block's, add_next of that block returns Ok, raises the latest
\* height by exactly one and makes the block's hash the latest hash.
C24_ProposeThenAppend ==
    \A transactions \in TransactionLists, now \in 0..MaxTimestamp :
        \E p \in {ProposeBlock(blocks, transactions, now)} :
            /\ p.ok
            /\ p.value.header.height = LatestBlockHeight(blocks) + 1
            /\ p.value.previous_hash = LatestBlockHash(blocks)
            /\ p.value.header.previous_state_root = LatestStateRoot(blocks)
            /\ p.value.transactions = transactions
            /\ Appendable(blocks, transactions, now) =>
                   \E r \in {AddNext(blocks, p.value, "none")} :
                       /\ r.result.ok
                       /\ LatestBlockHeight(r.self) = LatestBlockHeight(blocks) + 1
                       /\ LatestBlockHash(r.self) = Hash(p.value)

\* The block propose_block builds on a chain of two blocks was appended as
\* the third.
C24_Witness ==
    /\ last.op = "add_next"
    /\ last.result.ok
    /\ LatestBlockHeight(last.before) = 1
    /\ Appendable(last.before, last.arg.transactions, last.arg.header.timestamp)
    /\ last.arg = ProposeBlock(last.before, last.arg.transactions,
                               last.arg.header.timestamp).value
    /\ LatestBlockHeight(blocks) = 2
    /\ LatestBlockHash(blocks) = Hash(last.arg)

\* The places of the stored transactions that hold the commitment, the
\* stored heights whose block holds a transaction of the given id, and the
\* transitions of a transaction that hold the commitment.
PlacesOfCommitment(self, commitment) ==
    {p \in Places(self) : commitment \in StoredTransaction(self, p).commitments}

HeightsOfId(self, id) ==
    {self.transactions[p[1]].k : p \in {q \in Places(self) : StoredTransaction(self, q).id = id}}

TransitionsOfCommitment(transaction, commitment) ==
    {i \in 1..Len(transaction.transitions) :
        commitment \in transaction.transitions[i].commitments}

\* Exactly one stored transaction holds the commitment, exactly one stored
\* height holds the id of that transaction, and exactly one of its
\* transitions holds the commitment.
FoundOnce(self, commitment) ==
    /\ Cardinality(PlacesOfCommitment(self, commitment)) = 1
    /\ \A p \in PlacesOfCommitment(self, commitment) :
           /\ Cardinality(HeightsOfId(self, StoredTransaction(self, p).id)) = 1
           /\ Cardinality(TransitionsOfCommitment(StoredTransaction(self, p), commitment)) = 1

\* C25: to_state_path(commitment) returns Ok only when the commitment is
\* found once at each of the three levels, and it returns Err for a
\* commitment no stored transaction holds; the path it returns names the
\* transaction and the transition found.
C25_StatePathErrors ==
    /\ \A commitment \in PathCommitments :
           \E r \in {ToStatePath(blocks, commitment)} :
               /\ r.ok => FoundOnce(blocks, commitment)
               /\ PlacesOfCommitment(blocks, commitment) = {} => ~r.ok
               /\ r.ok => \A p \in PlacesOfCommitment(blocks, commitment) :
                              /\ r.value.transaction_id = StoredTransaction(blocks, p).id
                              /\ r.value.transaction_index = p[2] - 1
    /\ last.op = "to_state_path" =>
           /\ last.result = ToStatePath(blocks, last.arg)
           /\ blocks = last.before

\* to_state_path returned Err for the commitment of a transaction whose id
\* is stored at two heights.
C25_Witness ==
    /\ last.op = "to_state_path"
    /\ ~last.result.ok
    /\ last.result.value = "Multiple block heights associated with transaction id"
    /\ Cardinality(PlacesOfCommitment(blocks, last.arg)) = 1
    /\ \E p \in PlacesOfCommitment(blocks, last.arg) :
           Cardinality(HeightsOfId(blocks, StoredTransaction(blocks, p).id)) = 2

\* The other cases of C25 happen as well: an Err for two transactions, for
\* two transitions and for no transaction, and an Ok.
C25_TwoTransactions ==
    /\ last.op = "to_state_path" /\ ~last.result.ok
    /\ Cardinality(PlacesOfCommitment(blocks, last.arg)) = 2
C25_TwoTransitions ==
    /\ last.op = "to_state_path" /\ ~last.result.ok
    /\ last.result.value = "Multiple transitions associated with commitment"
C25_NoTransaction ==
    /\ last.op = "to_state_path" /\ ~last.result.ok
    /\ PlacesOfCommitment(blocks, last.arg) = {}
    /\ LatestBlockHeight(blocks) > 0
C25_PathReturned ==
    /\ last.op = "to_state_path" /\ last.result.ok
    /\ LatestBlockHeight(blocks) > 0

\* to_state_path succeeds for the commitment, and its block path proves the
\* latest block hash at leaf index latest_height under the returned root.
PathProvesLatest(self, commitment) ==
    \E r \in {ToStatePath(self, commitment)} :
        /\ r.ok
        /\ r.value.block_path.leaf_index = LatestBlockHeight(self)
        /\ r.value.state_root = LatestStateRoot(self)
        /\ Verify(r.value.block_path, r.value.state_root, LatestBlockHash(self))

\* C26: in every reachable chain state the leaf of the block tree at index
\* latest_height is the latest block hash, and for every commitment of a
\* stored transaction to_state_path succeeds with a block path that proves
\* that leaf under the returned state root.
C26_StatePathSucceeds ==
    /\ LatestBlockHeight(blocks) + 1 \in 1..Len(blocks.block_tree)
    /\ blocks.block_tree[LatestBlockHeight(blocks) + 1] = LatestBlockHash(blocks)
    /\ \A p \in Places(blocks) : \A commitment \in StoredTransaction(blocks, p).commitments :
           PathProvesLatest(blocks, commitment)

\* The same in the chains whose heights have no gap, for the commitments
\* found once at each level.
C26_PathsOfSoundChains ==
    StoredHeights(blocks) = 0..LatestBlockHeight(blocks) =>
        /\ blocks.block_tree[LatestBlockHeight(blocks) + 1] = LatestBlockHash(blocks)
        /\ \A p \in Places(blocks) : \A commitment \in StoredTransaction(blocks, p).commitments :
               FoundOnce(blocks, commitment) => PathProvesLatest(blocks, commitment)

\* The tree leaf alone: it is missing exactly in the chains with a gap.
C26_LeafOfLatest ==
    StoredHeights(blocks) = 0..LatestBlockHeight(blocks) <=>
        /\ LatestBlockHeight(blocks) + 1 \in 1..Len(blocks.block_tree)
        /\ blocks.block_tree[LatestBlockHeight(blocks) + 1] = LatestBlockHash(blocks)

\* ------------------------------------------------------------------------
\* C27 .. C30: the operation lists commit hands to to_program_tree
\* ------------------------------------------------------------------------
\* The operations the accepted transactions emitted for a program, in
\* emission order.
RECURSIVE EmittedOf(_, _)
EmittedOf(all_operations, program_id) ==
    IF all_operations = <<>> THEN <<>>
    ELSE IF Head(all_operations)[1] = program_id
    THEN << Head(all_operations)[2] >> \o EmittedOf(Tail(all_operations), program_id)
    ELSE EmittedOf(Tail(all_operations), program_id)

EmittedFor(self, program_id) == EmittedOf(AllOperations(self), program_id)

\* The stale-op collapse of a list: an operation goes exactly when a later
\* one has its key id; an InsertMapping has none and stays.
RECURSIVE Collapse(_)
Collapse(ops) ==
    IF ops = <<>> THEN <<>>
    ELSE IF KeyId(Head(ops)).some
            /\ \E j \in 2..Len(ops) : KeyId(ops[j]) = KeyId(Head(ops))
    THEN Collapse(Tail(ops))
    ELSE << Head(ops) >> \o Collapse(Tail(ops))

\* The positions of a list whose operation has the key id.
PositionsOfKey(ops, key_id) == {i \in 1..Len(ops) : KeyId(ops[i]) = Some(key_id)}

\* C27 (stale-op collapse): the list commit hands to to_program_tree for a
\* program is the collapse of the operations emitted for it: an operation
\* is dropped exactly when a later one of the program has its key id, and
\* operations with pairwise different key ids all survive, in order.
C27_StaleOpCollapse ==
    \A i \in 1..Len(FinalOperations(Self)) :
        FinalOperations(Self)[i].v = Collapse(EmittedFor(Self, FinalOperations(Self)[i].k))

\* C28: every InsertMapping an accepted deployment emitted is in the list
\* commit hands to to_program_tree for its program.
C28_InsertMappingKept ==
    \A i \in 1..Len(FinalOperations(Self)) :
        \A j \in 1..Len(EmittedFor(Self, FinalOperations(Self)[i].k)) :
            EmittedFor(Self, FinalOperations(Self)[i].k)[j].kind = "InsertMapping" =>
                Contains(FinalOperations(Self)[i].v,
                         EmittedFor(Self, FinalOperations(Self)[i].k)[j])

\* Whether the list holds exactly one operation of the key id and that one
\* is the last of the emitted ones with it.
OneTerminalOp(final, emitted, key_id) ==
    /\ Cardinality(PositionsOfKey(final, key_id)) = 1
    /\ \A i \in PositionsOfKey(final, key_id) :
           \E j \in PositionsOfKey(emitted, key_id) :
               /\ \A l \in PositionsOfKey(emitted, key_id) : l <= j
               /\ final[i].value_id = emitted[j].value_id

\* The key ids three operations of an emitted list were stored under.
StoredThrice(emitted) ==
    {emitted[i].key_id : i \in {j \in 1..Len(emitted) : KeyId(emitted[j]).some
                                    /\ Cardinality(PositionsOfKey(emitted, emitted[j].key_id)) = 3}}

\* C29 (same-key coalescing): when the accepted transactions of a batch
\* stored three values under one key, the reconciled list of the program
\* holds exactly one InsertValue or UpdateValue of that key id, with the
\* value id of the third value.
C29_SameKeyCoalescing ==
    \A i \in 1..Len(FinalOperations(Self)) :
        \A key_id \in StoredThrice(EmittedFor(Self, FinalOperations(Self)[i].k)) :
            OneTerminalOp(FinalOperations(Self)[i].v,
                          EmittedFor(Self, FinalOperations(Self)[i].k), key_id)

\* The same when the third store is the last operation emitted for the
\* program.
C29_ThirdStoreLast ==
    \A i \in 1..Len(FinalOperations(Self)) :
        \A key_id \in StoredThrice(EmittedFor(Self, FinalOperations(Self)[i].k)) :
            KeyId(EmittedFor(Self, FinalOperations(Self)[i].k)
                      [Len(EmittedFor(Self, FinalOperations(Self)[i].k))]) = Some(key_id) =>
                OneTerminalOp(FinalOperations(Self)[i].v,
                              EmittedFor(Self, FinalOperations(Self)[i].k), key_id)

C29_ThirdStoreLastHappens ==
    \E i \in 1..Len(FinalOperations(Self)) :
        \E key_id \in StoredThrice(EmittedFor(Self, FinalOperations(Self)[i].k)) :
            KeyId(EmittedFor(Self, FinalOperations(Self)[i].k)
                      [Len(EmittedFor(Self, FinalOperations(Self)[i].k))]) = Some(key_id)

\* ------------------------------------------------------------------------
\* C31 .. C38: speculation and commit
\* ------------------------------------------------------------------------
\* The updates and appends a list of new program leaves should give: an
\* update at the program's position in the store's program-id order when
\* the store holds the program, an append otherwise.
RECURSIVE ExpectedUpdates(_, _)
ExpectedUpdates(trees, program_ids) ==
    IF trees = <<>> THEN <<>>
    ELSE IF Contains(program_ids, Head(trees).k)
    THEN << << FirstIndex(program_ids, Head(trees).k) - 1, Head(trees).v >> >>
             \o ExpectedUpdates(Tail(trees), program_ids)
    ELSE ExpectedUpdates(Tail(trees), program_ids)

RECURSIVE ExpectedAppends(_, _)
ExpectedAppends(trees, program_ids) ==
    IF trees = <<>> THEN <<>>
    ELSE IF Contains(program_ids, Head(trees).k)
    THEN ExpectedAppends(Tail(trees), program_ids)
    ELSE << Head(trees).v >> \o ExpectedAppends(Tail(trees), program_ids)

ClassifiedAsExpected(trees, program_ids) ==
    trees.ok =>
        \E c \in {Classify(trees.value, program_ids, <<>>, <<>>)} :
            /\ c.updates = ExpectedUpdates(trees.value, program_ids)
            /\ c.appends = ExpectedAppends(trees.value, program_ids)

\* C31: commit classifies the new leaf of every affected program as an
\* update at the program's position in the store's program-id order when
\* the store holds the program and as an append exactly when it does not,
\* in whatever order the programs first occur in the operation log.
C31_UpdateOrAppend ==
    ClassifiedAsExpected(UpdatedProgramTrees(store, FinalOperations(Self), <<>>), Keys(store))

\* The same when a single program is affected, one the store does not hold
\* or the first of the store's programs.
C31_SingleLeadingProgram ==
    (Len(FinalOperations(Self)) = 1
        /\ (~ContainsProgram(store, FinalOperations(Self)[1].k)
               \/ Keys(store)[1] = FinalOperations(Self)[1].k)) =>
        ClassifiedAsExpected(UpdatedProgramTrees(store, FinalOperations(Self), <<>>), Keys(store))

\* C32 (operation kind of a Store command): in an instance that speculated
\* on the current store, every logged store operation is an UpdateValue
\* with the store's key index when the store has an index for its program,
\* mapping and key, and an InsertValue otherwise, whatever the overlay
\* holds.
C32_OperationKind ==
    RootMatches =>
        \A i \in 1..Len(AllOperations(Self)) :
            \E program_id \in {AllOperations(Self)[i][1]}, op \in {AllOperations(Self)[i][2]} :
                op.kind # "InsertMapping" =>
                    \E key_index \in {GetKeyIndex(store, program_id, op.mapping_id[2],
                                                  op.key_id[2])} :
                        /\ op.mapping_id = MappingId(program_id, op.mapping_id[2])
                        /\ op.key_id = KeyIdOf(op.mapping_id, op.key_id[2])
                        /\ key_index.some <=> op.kind = "UpdateValue"
                        /\ ~key_index.some <=> op.kind = "InsertValue"
                        /\ key_index.some => op.key_index = key_index.value

\* Two stores of a key the store does not hold were logged in one batch as
\* two InsertValue operations with one key id, the second while the overlay
\* already held the key; the batch also logged an UpdateValue.
C32_Witness ==
    /\ RootMatches
    /\ last.op = "speculate_transactions"
    /\ \E i, j \in 1..Len(AllOperations(Self)) :
           /\ i < j
           /\ AllOperations(Self)[i][2].kind = "InsertValue"
           /\ AllOperations(Self)[j][2].kind = "InsertValue"
           /\ AllOperations(Self)[i][2].key_id = AllOperations(Self)[j][2].key_id
           /\ AllOperations(Self)[i][2].value_id # AllOperations(Self)[j][2].value_id
           /\ GetValue(Self, AllOperations(Self)[i][1], AllOperations(Self)[i][2].mapping_id[2],
                       AllOperations(Self)[i][2].key_id[2]).some
    /\ \E i \in 1..Len(AllOperations(Self)) : AllOperations(Self)[i][2].kind = "UpdateValue"

\* The stores of a finalize in command order, as the program and key id of
\* each: the key register of a Store is an input register.
RECURSIVE StoresOf(_, _, _)
StoresOf(program_id, commands, inputs) ==
    IF commands = <<>> THEN <<>>
    ELSE IF Head(commands).op = "store"
    THEN << << program_id,
               KeyIdOf(MappingId(program_id, Head(commands).mapping),
                       inputs[Head(commands).key + 1]) >> >>
             \o StoresOf(program_id, Tail(commands), inputs)
    ELSE StoresOf(program_id, Tail(commands), inputs)

\* The stores of the transitions with a finalize scope, from the last
\* transition to the first.
RECURSIVE StoresFromLast(_)
StoresFromLast(transitions) ==
    IF transitions = <<>> THEN <<>>
    ELSE (IF GetFinalize(transitions[Len(transitions)].program_id,
                         transitions[Len(transitions)].function_name).some
          THEN StoresOf(transitions[Len(transitions)].program_id,
                        GetFinalize(transitions[Len(transitions)].program_id,
                                    transitions[Len(transitions)].function_name).commands,
                        transitions[Len(transitions)].finalize.value)
          ELSE <<>>)
         \o StoresFromLast(SubSeq(transitions, 1, Len(transitions) - 1))

\* C33 (ordering inside one execution): the log entry of an execution
\* lists the stores of its transitions from the last transition to the
\* first and, within a transition, in the order of the finalize commands;
\* an execution that was just accepted is the one the evaluation in that
\* order accepts.
C33_EmissionOrder ==
    /\ \A i \in 1..Len(operations) :
           Tx(operations[i].k).kind = "Execute" =>
               [j \in 1..Len(operations[i].v) |->
                    << operations[i].v[j][1], operations[i].v[j][2].key_id >>]
                 = StoresFromLast(Tx(operations[i].k).transitions)
    /\ (last.op = "speculate_transaction" /\ last.result.ok /\ last.result.value
            /\ Tx(last.arg[1]).kind = "Execute") =>
           \E e \in {EvaluateTransitions(last.before, store,
                                         Reverse(Tx(last.arg[1]).transitions), <<>>)} :
               /\ e.ok
               /\ speculate_state = e.self.speculate_state
               /\ e.operations # <<>> => MapGet(operations, last.arg[1]) = e.operations

\* On balance(A) = 20 the execution [transfer(A,B,30), mint(A,10)] was
\* accepted: the mint ran first, and the log lists the store of the mint
\* and then the two stores of the transfer.
C33_Witness ==
    /\ last.op = "speculate_transaction"
    /\ last.arg = << 12 >>
    /\ last.result.ok /\ last.result.value
    /\ last.before.processed_transactions = <<>>
    /\ Len(MapGet(operations, 12)) = 3
    /\ MapGet(operations, 12)[1][2].value_id
           = ValueIdOf(KeyIdOf(MappingId("credits.aleo", "account"), "A"), 30)
    /\ MapGet(operations, 12)[2][2].value_id
           = ValueIdOf(KeyIdOf(MappingId("credits.aleo", "account"), "A"), 0)
    /\ MapGet(operations, 12)[3][2].key_id
           = KeyIdOf(MappingId("credits.aleo", "account"), "B")

\* The last call speculated a deployment and passed both guards.
DeploymentSpeculated ==
    /\ last.op = "speculate_transaction"
    /\ last.result.ok
    /\ Tx(last.arg[1]).kind = "Deploy"

\* C34 (deployment speculation): a deployment of a program the store holds
\* is rejected and leaves the operation log as it was; any other deployment
\* is accepted and logs one InsertMapping per declared mapping, in
\* declaration order; the overlay is the same before and after.
C34_DeploymentSpeculation ==
    DeploymentSpeculated =>
        /\ speculate_state = last.before.speculate_state
        /\ IF ContainsKey(store, Tx(last.arg[1]).program)
           THEN /\ last.result.value = FALSE
                /\ operations = last.before.operations
           ELSE /\ last.result.value = TRUE
                /\ ContainsKey(operations, last.arg[1])
                /\ Len(MapGet(operations, last.arg[1])) = Len(Mappings(Tx(last.arg[1]).program))
                /\ \A i \in 1..Len(Mappings(Tx(last.arg[1]).program)) :
                       MapGet(operations, last.arg[1])[i]
                         = << Tx(last.arg[1]).program,
                              InsertMapping(<< Tx(last.arg[1]).program,
                                               Mappings(Tx(last.arg[1]).program)[i] >>) >>

\* The deployment of dapp.aleo was accepted after an execution had filled
\* the overlay: its entry is InsertMapping(m1), InsertMapping(m2).
C34_Witness ==
    /\ DeploymentSpeculated
    /\ last.result.value
    /\ last.before.speculate_state # <<>>
    /\ Len(MapGet(operations, last.arg[1])) = 2

\* The deployment of credits.aleo, which the store holds, was rejected by an
\* instance that had logged operations.
C34_DeployedRejected ==
    /\ DeploymentSpeculated
    /\ ~last.result.value
    /\ last.before.operations # <<>>

\* The operations a transaction emits when it is accepted.
EmittedBy(id) ==
    IF Tx(id).kind = "Deploy"
    THEN DeploymentOperations(Tx(id).program, Mappings(Tx(id).program))
    ELSE StoresFromLast(Tx(id).transitions)

\* C35 (shape of the operation log): the keys of operations are the accepted
\* transactions that emitted an operation; no rejected transaction has an
\* entry and no entry is empty.
C35_OperationLogShape ==
    /\ \A id \in TxIds :
           ContainsKey(operations, id)
             <=> (Contains(accepted_transactions, id) /\ EmittedBy(id) # <<>>)
    /\ \A id \in rejected : ~ContainsKey(operations, id)
    /\ \A i \in 1..Len(operations) :
           /\ operations[i].v # <<>>
           /\ \A j \in 1..Len(operations) : operations[j].k = operations[i].k => j = i

\* A mint with an entry and a private transfer, which has no finalize and
\* no entry, were both accepted.
C35_Witness ==
    /\ accepted_transactions = << 3, 9 >>
    /\ Keys(operations) = << 3 >>

\* A rejected transfer next to an accepted mint with an entry.
C35_RejectedWithoutEntry ==
    /\ rejected # {}
    /\ operations # <<>>
    /\ Len(processed_transactions) = 2

\* speculate_transactions was called on a fresh instance over balance(A) = 20
\* with the batch mint(A,20), transfer(A->B,30), transfer(A->B,20).
MintTransferTransfer ==
    /\ last.op = "speculate_transactions"
    /\ last.arg = << 11, 5, 4 >>
    /\ last.before = New(CurrentStorageRoot(InitialStore))
    /\ store = InitialStore

C37_GuardFailureFrame ==
    (last.op = "speculate_transaction" /\ ~last.result.ok) =>
        /\ processed_transactions = last.before.processed_transactions
        /\ accepted_transactions = last.before.accepted_transactions
        /\ speculate_state = last.before.speculate_state
        /\ operations = last.before.operations
        /\ latest_storage_root = last.before.latest_storage_root
        /\ rejected = last.rejected_before

\* An id the instance had already processed was speculated again and the call
\* returned Err, on an instance with an overlay and an operation log.
C37_Witness ==
    /\ last.op = "speculate_transaction"
    /\ ~last.result.ok
    /\ RootMatches
    /\ Contains(processed_transactions, last.arg[1])
    /\ speculate_state # <<>>
    /\ operations # <<>>

\* The call returned Err because the VM had finalized into the store under
\* an instance that holds speculated transactions.
C37_RootMismatch ==
    /\ last.op = "speculate_transaction"
    /\ ~last.result.ok
    /\ ~RootMatches
    /\ accepted_transactions # <<>>

\* C38 (commit is read-only and repeatable): a commit leaves the instance
\* (lists, overlay, operation log, recorded root) and the store as they were;
\* what it returns is a function of that state, so a commit that follows a
\* commit returns the same result; and after a commit on a matching root
\* speculate_transaction still passes its guards for every id the instance
\* has not processed.
C38_CommitReadOnly ==
    [][last'.op = "commit" =>
          /\ UNCHANGED << store, latest_storage_root, processed_transactions,
                          accepted_transactions, speculate_state, operations >>
          /\ last'.result = Commit(Self, store)
          /\ last'.result = Commit(Self', store')
          /\ (last.op = "commit" => last'.result = last.result)
          /\ RootMatches =>
                 \A id \in SingleIds :
                     ~ContainsTransaction(Self', id)
                       => SpeculateTransaction(Self', store', Tx(id)).result.ok]_vars

\* A commit returned a storage tree for an instance that holds an overlay and
\* two logged transactions, and left them in place.
C38_Witness ==
    /\ last.op = "commit"
    /\ last.result.ok
    /\ Self = last.before
    /\ Len(operations) = 2
    /\ speculate_state # <<>>
    /\ last.result.value # StorageTree(store)

\* The three maps of the chain have the same keys, the header stored at a
\* height carries that height, and current_height is the largest stored one.
MapsAligned(self) ==
    /\ Keys(self.previous_hashes) = Keys(self.headers)
    /\ Keys(self.headers) = Keys(self.transactions)
    /\ NoDuplicates(Keys(self.headers))
    /\ \A i \in 1..Len(self.headers) : self.headers[i].v.height = self.headers[i].k
    /\ self.current_height \in StoredHeights(self)
    /\ \A h \in StoredHeights(self) : h <= self.current_height

\* C39 (chain bookkeeping stays aligned): the three maps have the same key
\* set, the header stored at height h has height h, current_height is the
\* largest stored height, and the block tree has current_height + 1 leaves.
C39_ChainBookkeeping ==
    /\ MapsAligned(blocks)
    /\ Len(blocks.block_tree) = blocks.current_height + 1

\* What holds of C39: the maps are aligned, an accepted block appends one
\* leaf to the block tree and sets current_height to its header height, and
\* a block accepted on a latest height other than 0 keeps the tree at
\* current_height + 1 leaves when it had that many.
C39_AlignedMapsAndOneLeafPerBlock ==
    /\ MapsAligned(blocks)
    /\ (last.op = "add_next" /\ last.result.ok) =>
           /\ Len(blocks.block_tree) = Len(last.before.block_tree) + 1
           /\ blocks.current_height = last.arg.header.height
           /\ (last.before.current_height # 0
                 /\ Len(last.before.block_tree) = last.before.current_height + 1)
                => Len(blocks.block_tree) = blocks.current_height + 1

\* A block of height 2 was accepted on the genesis block: the tree has two
\* leaves, current_height is 2 and no block is stored at height 1.
C39_HeightTwoOnGenesis ==
    /\ last.op = "add_next" /\ last.result.ok
    /\ last.before = BlocksNew
    /\ blocks.current_height = 2
    /\ Len(blocks.block_tree) = 2
    /\ StoredHeights(blocks) = {0, 2}

\* ------------------------------------------------------------------------
\* CompactHeader: a batch header whose transmission ids are kept as indices
\* into the solutions and the transactions of a block.
\* ------------------------------------------------------------------------
\* The longest list of solutions, and of accepted and rejected transactions
\* together, handed to CompactHeader::new.
MaxListed == 2

SolutionIds == {"s1", "s2"}
TransactionIds == {"t1", "t2", "t3"}

\* TransmissionID::Solution, TransmissionID::Transaction and
\* TransmissionID::Ratification
Transmission(variant, id) == << variant, id >>
TransmissionSolution(id) == Transmission("Solution", id)
TransmissionTransaction(id) == Transmission("Transaction", id)
TransmissionRatification == << "Ratification" >>

TransmissionIds ==
    {TransmissionSolution(id) : id \in SolutionIds}
        \cup {TransmissionTransaction(id) : id \in TransactionIds}
        \cup {TransmissionRatification}

\* The lists without repetition of at most n elements of a set.
ListsOf(S, n) == {s \in UNION {[1..k -> S] : k \in 0..n} : NoDuplicates(s)}

\* The indices i (from 0) of a list whose element is a transmission id of
\* the batch header: the BitSet built by the loops of CompactHeader::new.
IndicesFound(transmission_ids, list, variant) ==
    {i \in 0..(Len(list) - 1) : Transmission(variant, list[i + 1]) \in transmission_ids}

\* CompactHeader::new; the fields copied from the batch header other than
\* the transmission ids are left out.
CompactHeaderNew(transmission_ids, ratifications, solutions, transactions, rejected_transactions) ==
    IF ratifications # 0 THEN Error("Invalid batch, contains ratifications")
    ELSE LET transaction_indices ==
                 IndicesFound(transmission_ids, transactions \o rejected_transactions,
                              "Transaction")
             solution_indices ==
                 IF solutions.some
                 THEN IndicesFound(transmission_ids, solutions.value, "Solution")
                 ELSE {}
         IN  IF Cardinality(transaction_indices) + Cardinality(solution_indices)
                    # Cardinality(transmission_ids)
             THEN Error("Could not find all Transmission IDs to construct Compact Header")
             ELSE Ok([transaction_indices |-> transaction_indices,
                      solution_indices |-> solution_indices])

\* IndexSet::insert of the elements of a list whose index is in a BitSet.
RECURSIVE InsertListed(_, _, _, _, _)
InsertListed(set, list, index, indices, variant) ==
    IF list = <<>> THEN set
    ELSE InsertListed(IF index \in indices /\ ~Contains(set, Transmission(variant, Head(list)))
                      THEN Append(set, Transmission(variant, Head(list)))
                      ELSE set,
                      Tail(list), index + 1, indices, variant)

\* BatchHeader::from: the batch header over the given transmission ids.
BatchHeaderFrom(transmission_ids) == Ok([transmission_ids |-> transmission_ids])

\* The end of into_batch_header: `transmission_ids` is the IndexSet it built.
AfterInsert(self, transmission_ids) ==
    IF Len(transmission_ids)
           # Cardinality(self.transaction_indices) + Cardinality(self.solution_indices)
    THEN Error("Could not find all transmission_ids")
    ELSE BatchHeaderFrom(transmission_ids)

\* CompactHeader::into_batch_header: the solutions, like the transactions, are
\* selected by self.transaction_indices.
IntoBatchHeader(self, ratifications, solutions, transactions, rejected_transactions) ==
    IF ratifications # 0 THEN Error("Invalid batch, contains ratifications")
    ELSE AfterInsert(self,
            InsertListed(InsertListed(<<>>, transactions \o rejected_transactions, 0,
                                      self.transaction_indices, "Transaction"),
                         IF solutions.some THEN solutions.value ELSE <<>>, 0,
                         self.transaction_indices, "Solution"))

\* The batch headers and the lists of a block CompactHeader::new is called
\* with: no id is listed twice.
CompactInputs ==
    {[transmission_ids |-> ids, ratifications |-> ratifications, solutions |-> solutions,
      transactions |-> transactions, rejected_transactions |-> rejected_transactions] :
        ids \in SUBSET TransmissionIds,
        ratifications \in {0, 1},
        solutions \in {None} \cup {Some(s) : s \in ListsOf(SolutionIds, MaxListed)},
        transactions \in ListsOf(TransactionIds, MaxListed),
        rejected_transactions \in ListsOf(TransactionIds, MaxListed)}

CompactInit ==
    /\ store = InitialStore
    /\ finalized = 0
    /\ latest_storage_root = CurrentStorageRoot(InitialStore)
    /\ processed_transactions = <<>>
    /\ accepted_transactions = <<>>
    /\ speculate_state = <<>>
    /\ operations = <<>>
    /\ rejected = {}
    /\ blocks = BlocksNew
    /\ objects = <<>>
    /\ \E input \in CompactInputs :
           /\ input.transactions \o input.rejected_transactions
                  \in ListsOf(TransactionIds, MaxListed)
           /\ last = [op |-> "batch_header", arg |-> input, result |-> Ok(<<>>)]

\* CompactHeader::new(&batch_header, ratifications, solutions, transactions,
\* rejected_transactions)
CompactHeaderNewCall ==
    /\ last.op = "batch_header"
    /\ last' = [op |-> "new", arg |-> last.arg,
                result |-> CompactHeaderNew(last.arg.transmission_ids, last.arg.ratifications,
                                            last.arg.solutions, last.arg.transactions,
                                            last.arg.rejected_transactions)]
    /\ UNCHANGED << store, finalized, latest_storage_root, processed_transactions,
                    accepted_transactions, speculate_state, operations, rejected, blocks, objects >>

\* compact_header.into_batch_header(ratifications, solutions, transactions,
\* rejected_transactions) over the lists the compact header was built from.
IntoBatchHeaderCall ==
    /\ last.op = "new"
    /\ last.result.ok
    /\ last' = [op |-> "into_batch_header", arg |-> last.arg,
                result |-> IntoBatchHeader(last.result.value, last.arg.ratifications,
                                           last.arg.solutions, last.arg.transactions,
                                           last.arg.rejected_transactions)]
    /\ UNCHANGED << store, finalized, latest_storage_root, processed_transactions,
                    accepted_transactions, speculate_state, operations, rejected, blocks, objects >>

CompactNext ==
    \/ CompactHeaderNewCall
    \/ IntoBatchHeaderCall

CompactSpec == CompactInit /\ [][CompactNext]_vars

\* Every transmission id of the batch header is a listed solution or a
\* listed (accepted or rejected) transaction.
AllFound(input) ==
    \A id \in input.transmission_ids :
        \/ /\ input.solutions.some
           /\ \E i \in 1..Len(input.solutions.value) :
                  id = TransmissionSolution(input.solutions.value[i])
        \/ \E i \in 1..Len(input.transactions \o input.rejected_transactions) :
               id = TransmissionTransaction((input.transactions \o input.rejected_transactions)[i])

\* C40 (CompactHeader round trip): for a batch header whose transmission ids
\* are all found in the lists, CompactHeader::new succeeds and
\* into_batch_header over the same lists succeeds and yields the header's set
\* of transmission ids.
C40_RoundTrip ==
    /\ (last.op = "new" /\ last.arg.ratifications = 0 /\ AllFound(last.arg)) => last.result.ok
    /\ (last.op = "into_batch_header" /\ AllFound(last.arg)) =>
           /\ last.result.ok
           /\ Range(last.result.value.transmission_ids) = last.arg.transmission_ids

\* What holds of C40: CompactHeader::new succeeds when every id is found, and
\* the round trip succeeds with the header's ids when the header holds no
\* solution and no solution is listed at an index of transaction_indices.
C40_RoundTripOfTransactions ==
    /\ (last.op = "new" /\ last.arg.ratifications = 0 /\ AllFound(last.arg)) => last.result.ok
    /\ (last.op = "into_batch_header" /\ AllFound(last.arg)
            /\ \A s \in SolutionIds : TransmissionSolution(s) \notin last.arg.transmission_ids
            /\ (last.arg.solutions.some =>
                   \A i \in 1..Len(last.arg.solutions.value) :
                       ~(i <= Len(last.arg.transactions \o last.arg.rejected_transactions)
                           /\ TransmissionTransaction(
                                  (last.arg.transactions \o last.arg.rejected_transactions)[i])
                                \in last.arg.transmission_ids))) =>
           /\ last.result.ok
           /\ Range(last.result.value.transmission_ids) = last.arg.transmission_ids

\* The header holds the one solution s1, listed at index 0, and no
\* transaction: into_batch_header returns Err.
C40_SolutionNotSelected ==
    /\ last.op = "into_batch_header"
    /\ last.arg.transmission_ids = {TransmissionSolution("s1")}
    /\ last.arg.solutions = Some(<< "s1" >>)
    /\ last.arg.transactions = <<>> /\ last.arg.rejected_transactions = <<>>
    /\ last.result = Error("Could not find all transmission_ids")

\* A header of two transactions, one accepted and one rejected, made the
\* round trip.
C40_TransactionsRoundTrip ==
    /\ last.op = "into_batch_header"
    /\ last.arg.transmission_ids
           = {TransmissionTransaction("t1"), TransmissionTransaction("t2")}
    /\ Len(last.arg.transactions) = 1 /\ Len(last.arg.rejected_transactions) = 1
    /\ last.result.ok

====
